---- MODULE Spec2Model ----
(***************************************************************************)
(* The lchliebedich lexicon engine (src/src/wordlib/lchliebedich_engine.py)  *)
(* and its manager (src/src/wordlib/manager.py) as a state machine.         *)
(*                                                                         *)
(* A Python str is a sequence of characters, each character one TLA+       *)
(* string: an ASCII character is itself, a CJK character is its pinyin     *)
(* with the tone number, so that lengths and slices are the source's:      *)
(*   "ru2" "guo3" ":"          the if marker      (U+5982 U+679C ':')      *)
(*   "ru2" "guo3" "wei3"       the end-if marker  (U+5982 U+679C U+5C3E)   *)
(*   "fan3" "hui2"             the return marker  (U+8FD4 U+56DE)          *)
(*   "kuo4" "hao4" i           capture i          (U+62EC U+53F7)          *)
(*   "kuo4" "hao4" "liang4"    capture count      (U+62EC U+53F7 U+91CF)   *)
(*   "can1" "shu4" i           parameter i        (U+53C2 U+6570)          *)
(*   "can1" "shu4" "liang4"    parameter count    (U+53C2 U+6570 U+91CF)   *)
(*   "bian4" "liang4"          function: set      (U+53D8 U+91CF)          *)
(*   "qu3" "bian4" "liang4"    function: get      (U+53D6 U+53D8 U+91CF)   *)
(*   "ni4" "cheng1"            nickname           (U+6635 U+79F0)          *)
(*   "qun2" "hao4"             group number       (U+7FA4 U+53F7)          *)
(* None is the record NoneV and a returned string s is Some(s).            *)
(***************************************************************************)
EXTENDS Integers, Sequences, FiniteSets, TLC

VARIABLES
    entries,           \* LchliebedichEngine.entries of the stand-alone engine
    global_variables,  \* LchliebedichEngine.global_variables (the Variable Store)
    message_context,   \* LchliebedichEngine.message_context
    ret,               \* what the last call on the engine returned
    engines,           \* LchliebedichWordLibManager.engines, in dict insertion order
    enabled_files,     \* LchliebedichWordLibManager.enabled_files
    config_json,       \* the enabled_files list persisted in config.json
    mret,              \* what the last call on the manager returned
    history,           \* history variable: per file, the last enable/disable call
    json_files,        \* the directories and JSON files that read/write config reach
    cret,              \* what the last read/write config call returned
    threads,           \* the positions of the reload thread and the message thread
    framework,         \* OneBotFramework.wordlib_manager, the message path's manager
    hret               \* what the last MessageHandler.handle_message returned

vars == <<entries, global_variables, message_context, ret,
          engines, enabled_files, config_json, mret, history,
          json_files, cret, threads, framework, hret>>

engineVars == <<entries, global_variables, message_context, ret>>
managerVars == <<engines, enabled_files, config_json, mret, history>>
configVars == <<json_files, cret>>
wiringVars == <<framework, hret>>
otherVars == <<configVars, threads, wiringVars>>

-----------------------------------------------------------------------------
(* Python values *)

NoneV == [some |-> FALSE, val |-> <<>>]
Some(s) == [some |-> TRUE, val |-> s]
\* `if response:` on an Optional[str]
Truthy(r) == r.some /\ r.val /= <<>>

-----------------------------------------------------------------------------
(* str methods *)

NL == "\n"
IsSpace(c) == c \in {" ", "\t", "\n", "\r"}

Drop(s, n) == IF n >= Len(s) THEN <<>> ELSE SubSeq(s, n + 1, Len(s))
Take(s, n) == IF n >= Len(s) THEN s ELSE SubSeq(s, 1, n)

RECURSIVE LStrip(_)
LStrip(s) == IF s /= <<>> /\ IsSpace(Head(s)) THEN LStrip(Tail(s)) ELSE s

RECURSIVE RStrip(_)
RStrip(s) == IF s /= <<>> /\ IsSpace(s[Len(s)]) THEN RStrip(Take(s, Len(s) - 1)) ELSE s

\* str.strip()
Strip(s) == RStrip(LStrip(s))

\* str.startswith(p)
StartsWith(s, p) == Len(s) >= Len(p) /\ SubSeq(s, 1, Len(p)) = p

\* str.find(p) + 1: the least 1-based index at which p occurs in s, 0 if none
RECURSIVE FindFrom(_, _, _)
FindFrom(s, p, i) ==
    IF i + Len(p) - 1 > Len(s) THEN 0
    ELSE IF SubSeq(s, i, i + Len(p) - 1) = p THEN i
    ELSE FindFrom(s, p, i + 1)

Find(s, p) == FindFrom(s, p, 1)

\* `p in s`
Contains(s, p) == Find(s, p) > 0

\* str.split(sep, 1) when sep occurs in s
Split1(s, sep) ==
    LET k == Find(s, sep)
    IN <<Take(s, k - 1), Drop(s, k + Len(sep) - 1)>>

\* str.split(sep)
RECURSIVE SplitAll(_, _)
SplitAll(s, sep) ==
    IF ~Contains(s, sep) THEN <<s>>
    ELSE LET lr == Split1(s, sep) IN <<lr[1]>> \o SplitAll(lr[2], sep)

\* the first whitespace-free word of s (s has no leading whitespace)
RECURSIVE WordLen(_)
WordLen(s) == IF s = <<>> \/ IsSpace(Head(s)) THEN 0 ELSE 1 + WordLen(Tail(s))

\* str.split(): split on runs of whitespace, no empty parts
RECURSIVE SplitWS(_)
SplitWS(s) ==
    LET t == LStrip(s)
    IN IF t = <<>> THEN <<>>
       ELSE <<Take(t, WordLen(t))>> \o SplitWS(Drop(t, WordLen(t)))

\* sep.join(parts)
RECURSIVE Join(_, _)
Join(parts, sep) ==
    IF parts = <<>> THEN <<>>
    ELSE IF Len(parts) = 1 THEN parts[1]
    ELSE parts[1] \o sep \o Join(Tail(parts), sep)

\* str.lower() on the letters the inputs use
LowerChar(c) ==
    CASE c = "A" -> "a"
      [] c = "B" -> "b"
      [] c = "T" -> "t"
      [] c = "Y" -> "y"
      [] OTHER -> c

Lower(s) == [i \in 1..Len(s) |-> LowerChar(s[i])]

Digits == <<"0", "1", "2", "3", "4", "5", "6", "7", "8", "9">>
IsDigit(c) == \E d \in 1..10 : Digits[d] = c
DigitVal(c) == (CHOOSE d \in 1..10 : Digits[d] = c) - 1

\* str(n) for an int n
RECURSIVE NatToStr(_)
NatToStr(n) == IF n < 10 THEN <<Digits[n + 1]>> ELSE NatToStr(n \div 10) \o <<Digits[(n % 10) + 1]>>

IntToStr(n) == IF n < 0 THEN <<"-">> \o NatToStr(-n) ELSE NatToStr(n)

\* float(s): the numerals the inputs use are signed decimal integers; every
\* other text is a ValueError (ok = FALSE)
RECURSIVE DigitsVal(_, _)
DigitsVal(s, acc) == IF s = <<>> THEN acc ELSE DigitsVal(Tail(s), acc * 10 + DigitVal(Head(s)))

ParseFloat(s0) ==
    LET s == Strip(s0)
        signed == s /= <<>> /\ Head(s) \in {"-", "+"}
        body == IF signed THEN Tail(s) ELSE s
        ok == body /= <<>> /\ \A i \in 1..Len(body) : IsDigit(body[i])
    IN [ok |-> ok,
        val |-> IF ~ok THEN 0
                ELSE IF signed /\ Head(s) = "-" THEN 0 - DigitsVal(body, 0)
                ELSE DigitsVal(body, 0)]

-----------------------------------------------------------------------------
(* dict *)

EmptyDict == [k \in {} |-> <<>>]
\* d[k] = v
DictSet(d, k, v) == [x \in (DOMAIN d) \cup {k} |-> IF x = k THEN v ELSE d[x]]
\* d.get(k, default)
DictGet(d, k, default) == IF k \in DOMAIN d THEN d[k] ELSE default

-----------------------------------------------------------------------------
(* re.compile(trigger, re.IGNORECASE) and pattern.search(message), for the
   pattern syntax the triggers use: literal characters, '.', '(' ')' groups
   and '*' after a literal or '.' *)

\* nesting depth after the first i characters of p; -1 once a ')' closed nothing
RECURSIVE ParenDepth(_, _)
ParenDepth(p, i) ==
    IF i = 0 THEN 0
    ELSE LET d == ParenDepth(p, i - 1)
         IN IF d < 0 THEN -1
            ELSE IF p[i] = "(" THEN d + 1
            ELSE IF p[i] = ")" THEN d - 1
            ELSE d

\* re.compile raises re.error: "missing ), unterminated subpattern",
\* "unbalanced parenthesis", "nothing to repeat", "multiple repeat"
ReError(p) ==
    \/ ParenDepth(p, Len(p)) /= 0
    \/ \E i \in 1..Len(p) :
          /\ p[i] = "*"
          /\ (i = 1 \/ p[i - 1] \in {"(", "*"})

\* the number of the group that the '(' at index i opens
GroupNo(p, i) == Cardinality({j \in 1..i : p[j] = "("})
NGroups(p) == GroupNo(p, Len(p))

\* the index of the '(' that the ')' at index i closes
OpenOf(p, i) ==
    CHOOSE j \in 1..i :
        /\ p[j] = "("
        /\ ParenDepth(p, j - 1) = ParenDepth(p, i)
        /\ \A k \in (j + 1)..(i - 1) : ParenDepth(p, k) > ParenDepth(p, i)

\* one pattern character against one message character, under re.IGNORECASE
AtomMatches(c, x) == IF c = "." THEN x /= NL ELSE LowerChar(c) = LowerChar(x)

\* how many characters from m[mi] on match the atom c
RECURSIVE RunLen(_, _, _)
RunLen(c, m, mi) ==
    IF mi <= Len(m) /\ AtomMatches(c, m[mi]) THEN 1 + RunLen(c, m, mi + 1) ELSE 0

NoMatch == [ok |-> FALSE, caps |-> <<>>]

\* the backtracking match of p[pi..] at m[mi..]; '*' is greedy
RECURSIVE MatchHere(_, _, _, _, _, _)
RECURSIVE MatchStar(_, _, _, _, _, _, _)
MatchHere(p, pi, m, mi, starts, caps) ==
    IF pi > Len(p) THEN [ok |-> TRUE, caps |-> caps]
    ELSE IF p[pi] = "("
    THEN MatchHere(p, pi + 1, m, mi, [starts EXCEPT ![GroupNo(p, pi)] = mi], caps)
    ELSE IF p[pi] = ")"
    THEN LET g == GroupNo(p, OpenOf(p, pi))
         IN MatchHere(p, pi + 1, m, mi, starts,
                      [caps EXCEPT ![g] = SubSeq(m, starts[g], mi - 1)])
    ELSE IF pi < Len(p) /\ p[pi + 1] = "*"
    THEN MatchStar(p, pi, m, mi, starts, caps, RunLen(p[pi], m, mi))
    ELSE IF mi <= Len(m) /\ AtomMatches(p[pi], m[mi])
    THEN MatchHere(p, pi + 1, m, mi + 1, starts, caps)
    ELSE NoMatch

MatchStar(p, pi, m, mi, starts, caps, k) ==
    IF k < 0 THEN NoMatch
    ELSE LET r == MatchHere(p, pi + 2, m, mi + k, starts, caps)
         IN IF r.ok THEN r ELSE MatchStar(p, pi, m, mi, starts, caps, k - 1)

\* pattern.search(message): the leftmost match; caps is match.groups()
RECURSIVE SearchFrom(_, _, _)
SearchFrom(p, m, s) ==
    IF s > Len(m) + 1 THEN NoMatch
    ELSE LET r == MatchHere(p, 1, m, s, [g \in 1..NGroups(p) |-> 1],
                            [g \in 1..NGroups(p) |-> <<>>])
         IN IF r.ok THEN r ELSE SearchFrom(p, m, s + 1)

Search(p, m) == SearchFrom(p, m, 1)

-----------------------------------------------------------------------------
(* LchliebedichEngine: an engine is the record
   [entries, global_variables, message_context] *)

KEY_BRACKET == <<"kuo4", "hao4">>
KEY_BRACKET_COUNT == <<"kuo4", "hao4", "liang4">>
KEY_PARAM == <<"can1", "shu4">>
KEY_PARAM_COUNT == <<"can1", "shu4", "liang4">>
KEY_PARAM_ALL == <<"can1", "shu4", "-", "1">>

RECURSIVE SaveGroups(_, _, _)
SaveGroups(gv, groups, i) ==
    IF i > Len(groups) THEN gv
    ELSE SaveGroups(DictSet(gv, KEY_BRACKET \o IntToStr(i), groups[i]), groups, i + 1)

RECURSIVE SaveParts(_, _, _)
SaveParts(gv, parts, i) ==
    IF i + 1 > Len(parts) THEN gv
    ELSE SaveParts(DictSet(gv, KEY_PARAM \o IntToStr(i), parts[i + 1]), parts, i + 1)

\* a store of captures without their surrounding white space
RECURSIVE StripAll(_)
StripAll(groups) ==
    IF groups = <<>> THEN <<>> ELSE <<Strip(Head(groups))>> \o StripAll(Tail(groups))

SaveMatchParamsStripped(e, groups, message) ==
    LET parts == SplitWS(message)
        g1 == SaveGroups(e.global_variables, StripAll(groups), 1)
        g2 == DictSet(g1, KEY_BRACKET_COUNT, IntToStr(Len(groups)))
        g3 == SaveParts(g2, parts, 1)
        g4 == DictSet(g3, KEY_PARAM_COUNT, IntToStr(Len(parts) - 1))
        g5 == DictSet(g4, KEY_PARAM_ALL, message)
    IN [e EXCEPT !.global_variables = g5]

_save_match_params(e, groups, message) ==
    LET parts == SplitWS(message)
        g1 == SaveGroups(e.global_variables, groups, 1)
        g2 == DictSet(g1, KEY_BRACKET_COUNT, IntToStr(Len(groups)))
        g3 == SaveParts(g2, parts, 1)
        g4 == DictSet(g3, KEY_PARAM_COUNT, IntToStr(Len(parts) - 1))
        g5 == DictSet(g4, KEY_PARAM_ALL, message)
    IN [e EXCEPT !.global_variables = g5]

\* a fallback that looks for the trigger inside the message, and records the
\* match as a match without groups
MatchTriggerSubstring(e, trigger, message) ==
    IF ReError(trigger)
    THEN IF Contains(message, trigger)
         THEN [matched |-> TRUE, e |-> _save_match_params(e, <<>>, message)]
         ELSE [matched |-> FALSE, e |-> e]
    ELSE LET Found(r) ==
                 IF r.ok
                 THEN [matched |-> TRUE, e |-> _save_match_params(e, r.caps, message)]
                 ELSE [matched |-> FALSE, e |-> e]
         IN Found(Search(trigger, message))

\* returns [matched, e]
_match_trigger(e, trigger, message) ==
    IF ReError(trigger)
    THEN [matched |-> trigger = message, e |-> e]
    ELSE LET r == Search(trigger, message)
         IN IF r.ok
            THEN [matched |-> TRUE, e |-> _save_match_params(e, r.caps, message)]
            ELSE [matched |-> FALSE, e |-> e]

-----------------------------------------------------------------------------
(* the Variable Resolver *)

K_user_id == <<"u", "s", "e", "r", "_", "i", "d">>
K_nickname == <<"n", "i", "c", "k", "n", "a", "m", "e">>
K_group_id == <<"g", "r", "o", "u", "p", "_", "i", "d">>
K_raw_message == <<"r", "a", "w", "_", "m", "e", "s", "s", "a", "g", "e">>
K_self_id == <<"s", "e", "l", "f", "_", "i", "d">>
K_message_id == <<"m", "e", "s", "s", "a", "g", "e", "_", "i", "d">>
K_message_type == <<"m", "e", "s", "s", "a", "g", "e", "_", "t", "y", "p", "e">>

\* the reading of the wall clock (datetime.now(), time.time()) during a call
CLOCK_DATE == <<"2", "0", "2", "6", "-", "0", "1", "-", "0", "1">>
CLOCK_TIME == <<"1", "2", ":", "0", "0", ":", "0", "0">>
CLOCK_STAMP == <<"1", "7", "6", "7", "2", "6", "8", "8", "0", "0">>

_get_message_source(e) ==
    IF DictGet(e.message_context, K_message_type, <<>>) = <<"g", "r", "o", "u", "p">> THEN <<"qun2", "liao2", "xiao1", "xi1">>
    ELSE IF DictGet(e.message_context, K_message_type, <<>>) = <<"p", "r", "i", "v", "a", "t", "e">> THEN <<"hao3", "you3", "xiao1", "xi1">>
    ELSE <<"qi2", "ta1", "xiao1", "xi1">>

\* a value of the context is a str, or a bytes object: the sequence that
\* starts with the mark BYTES and goes on with the characters of the bytes
BYTES == "bytes"
IsBytes(v) == v /= <<>> /\ Head(v) = BYTES

\* str(v)
Str(v) == IF IsBytes(v) THEN <<"b", "'">> \o Tail(v) \o <<"'">> ELSE v

\* json.dumps(self.message_context) returns: it raises TypeError on a value
\* that JSON cannot carry
JsonSerializable(c) == \A k \in DOMAIN c : ~IsBytes(c[k])

\* builtin_vars without MSGJ, whose value no template here reads; building
\* the dict evaluates json.dumps for MSGJ whatever name is looked up
builtin_vars(e) ==
    LET c == e.message_context
        user == DictGet(c, K_user_id, <<>>)
        nick == DictGet(c, K_nickname, <<>>)
        group == DictGet(c, K_group_id, <<>>)
        self == DictGet(c, K_self_id, <<>>)
    IN  (<<"Q", "Q">> :> user) @@ (<<"U", "i", "n">> :> user)
     @@ (<<"ni4", "cheng1">> :> nick) @@ (<<"U", "i", "n", "N", "a", "m", "e">> :> nick)
     @@ (<<"qun2", "hao4">> :> group) @@ (<<"G", "r", "o", "u", "p", "I", "d">> :> group)
     @@ (<<"qun2">> :> group) @@ (<<"G", "r", "o", "u", "p", "i", "d">> :> group)
     @@ (<<"M", "S", "G">> :> DictGet(c, K_raw_message, <<>>))
     @@ (<<"deng1", "lu4", "zhang4", "hao4">> :> self) @@ (<<"A", "c", "c", "o", "u", "n", "t">> :> self) @@ (<<"R", "o", "b", "o", "t">> :> self)
     @@ (<<"M", "s", "g", "I", "d">> :> DictGet(c, K_message_id, <<>>))
     @@ (<<"xiao1", "xi1", "lai2", "yuan2">> :> _get_message_source(e))
     @@ (<<"d", "a", "t", "e">> :> CLOCK_DATE) @@ (<<"ri4", "qi1">> :> CLOCK_DATE)
     @@ (<<"t", "i", "m", "e">> :> CLOCK_TIME) @@ (<<"shi2", "jian1">> :> CLOCK_TIME)
     @@ (<<"d", "a", "t", "e", "t", "i", "m", "e">> :> CLOCK_DATE \o <<" ">> \o CLOCK_TIME)
     @@ (<<"shi2", "jian1", "chuo1">> :> CLOCK_STAMP)
     @@ (<<"shi2", "jian1", "chuo1", "hao2", "miao3">> :> CLOCK_STAMP \o <<"0", "0", "0">>)

\* a lookup that asks the message context before the Variable Store
GetVariableValueContextFirst(e, var_name) ==
    IF var_name \in DOMAIN e.message_context THEN e.message_context[var_name]
    ELSE IF var_name \in DOMAIN e.global_variables THEN e.global_variables[var_name]
    ELSE DictGet(builtin_vars(e), var_name, <<>>)

\* the call raises (TypeError, from json.dumps in the dict of the built-ins)
GetVariableValueRaises(e, var_name) ==
    /\ var_name \notin DOMAIN e.global_variables
    /\ var_name \notin DOMAIN e.message_context
    /\ ~JsonSerializable(e.message_context)

_get_variable_value(e, var_name) ==
    IF var_name \in DOMAIN e.global_variables THEN e.global_variables[var_name]
    ELSE IF var_name \in DOMAIN e.message_context THEN e.message_context[var_name]
    ELSE DictGet(builtin_vars(e), var_name, <<>>)

-----------------------------------------------------------------------------
(* the Function Dispatcher *)

\* the built-ins of _init_functions that read or write only the engine; the
\* four that reach outside it (random numbers, file size, the two JSON file
\* functions) are not among the calls the templates make.
\* raised = the call raised (TypeError on a wrong number of arguments)
Returned(v, e) == [raised |-> FALSE, val |-> v, e |-> e]
Raised(e) == [raised |-> TRUE, val |-> <<>>, e |-> e]

FunctionNames ==
    { <<"zi4", "fu2", "chang2", "du4">>, <<"bian4", "liang4">>, <<"qu3", "bian4", "liang4">>, <<"tu2", "pian4">>, <<"dong4", "tu2">>, <<"shan3", "zhao4">>, <<"yu3", "yin1">>,
      <<"E", "m", "o", "y">>, <<"E", "m", "o", "q">>, <<"fa1", "song4">>, <<"xin1", "jian4", "xiao1", "xi1">>, <<"tian1", "jia1", "xiao1", "xi1">>, <<"fa1", "song4", "xiao1", "xi1">>,
      <<"cun2", "zai4", "xiao1", "xi1">>, <<"huo4", "qu3", "xiao1", "xi1">>, <<"qun2", "liao2", "xiao1", "xi1">>, <<"hao3", "you3", "xiao1", "xi1">>, <<"lin2", "shi2", "xiao1", "xi1">>,
      <<"xi4", "tong3", "xiao1", "xi1">>, <<"wei4", "shou4", "quan2">> }

_variable_func(e, var_name, value) ==
    Returned(<<>>, [e EXCEPT !.global_variables = DictSet(@, var_name, value)])

_get_variable_func(e, var_name) ==
    IF GetVariableValueRaises(e, var_name) THEN Raised(e)
    ELSE Returned(_get_variable_value(e, var_name), e)

_new_message_func(e, msg_id) ==
    Returned(<<>>, [e EXCEPT !.global_variables = DictSet(@, <<"m", "s", "g", "_">> \o msg_id, <<"{", "}">>)])

_is_group_message_func(e) ==
    Returned(IF DictGet(e.message_context, K_message_type, <<>>) = <<"g", "r", "o", "u", "p">>
             THEN <<"1">> ELSE <<"0">>, e)

_is_friend_message_func(e) ==
    Returned(IF DictGet(e.message_context, K_message_type, <<>>) = <<"p", "r", "i", "v", "a", "t", "e">>
             THEN <<"1">> ELSE <<"0">>, e)

\* self.functions[func_name](*args), then str() of what it returns
Apply(e, f, args) ==
    LET n == Len(args)
    IN CASE f = <<"zi4", "fu2", "chang2", "du4">> -> IF n = 1 THEN Returned(IntToStr(Len(args[1])), e) ELSE Raised(e)
         [] f = <<"bian4", "liang4">> -> IF n = 2 THEN _variable_func(e, args[1], args[2]) ELSE Raised(e)
         [] f = <<"qu3", "bian4", "liang4">> -> IF n = 1 THEN _get_variable_func(e, args[1]) ELSE Raised(e)
         [] f \in { <<"tu2", "pian4">>, <<"dong4", "tu2">> } ->
              IF n = 1 THEN Returned(<<"[", "C", "Q", ":", "i", "m", "a", "g", "e", ",", "f", "i", "l", "e", "=">> \o args[1] \o <<"]">>, e) ELSE Raised(e)
         [] f = <<"shan3", "zhao4">> ->
              IF n = 1 THEN Returned(<<"[", "C", "Q", ":", "i", "m", "a", "g", "e", ",", "f", "i", "l", "e", "=">> \o args[1] \o <<",", "t", "y", "p", "e", "=", "f", "l", "a", "s", "h", "]">>, e)
              ELSE Raised(e)
         [] f = <<"yu3", "yin1">> ->
              IF n = 2 THEN Returned(<<"[", "C", "Q", ":", "r", "e", "c", "o", "r", "d", ",", "f", "i", "l", "e", "=">> \o args[2] \o <<"]">>, e) ELSE Raised(e)
         [] f \in { <<"E", "m", "o", "y">>, <<"E", "m", "o", "q">> } ->
              IF n = 1 THEN Returned(<<"[", "C", "Q", ":", "f", "a", "c", "e", ",", "i", "d", "=">> \o args[1] \o <<"]">>, e) ELSE Raised(e)
         [] f \in { <<"fa1", "song4">>, <<"tian1", "jia1", "xiao1", "xi1">> } -> Returned(<<>>, e)
         [] f = <<"xin1", "jian4", "xiao1", "xi1">> -> IF n = 1 THEN _new_message_func(e, args[1]) ELSE Raised(e)
         [] f = <<"fa1", "song4", "xiao1", "xi1">> -> IF n \in {1, 2} THEN Returned(<<>>, e) ELSE Raised(e)
         [] f = <<"cun2", "zai4", "xiao1", "xi1">> ->
              IF n = 1
              THEN Returned(IF args[1] \in DOMAIN e.message_context
                            THEN <<"T", "r", "u", "e">> ELSE <<"F", "a", "l", "s", "e">>, e)
              ELSE Raised(e)
         [] f = <<"huo4", "qu3", "xiao1", "xi1">> ->
              IF n = 1 THEN Returned(DictGet(e.message_context, args[1], <<>>), e)
              ELSE IF n = 2 THEN Returned(DictGet(e.message_context, args[1], args[2]), e)
              ELSE Returned(<<>>, e)
         [] f = <<"qun2", "liao2", "xiao1", "xi1">> -> IF n = 0 THEN _is_group_message_func(e) ELSE Raised(e)
         [] f = <<"hao3", "you3", "xiao1", "xi1">> -> IF n = 0 THEN _is_friend_message_func(e) ELSE Raised(e)
         [] f \in { <<"lin2", "shi2", "xiao1", "xi1">>, <<"xi4", "tong3", "xiao1", "xi1">>, <<"wei4", "shou4", "quan2">> } ->
              IF n = 0 THEN Returned(<<"0">>, e) ELSE Raised(e)

\* returns [val, e]
_call_function(e, func_content) ==
    LET Applied(r) == IF r.raised THEN [val |-> <<>>, e |-> e] ELSE [val |-> r.val, e |-> r.e]
        Call(parts) ==
            IF parts = <<>> THEN [val |-> <<>>, e |-> e]
            ELSE IF Head(parts) \in FunctionNames
            THEN Applied(Apply(e, Head(parts), Tail(parts)))
            ELSE [val |-> <<>>, e |-> e]
    IN Call(SplitWS(Strip(func_content)))

-----------------------------------------------------------------------------
(* _process_variables_and_functions: re.sub(r'%([^%]+)%', ...) over the whole
   text, then re.sub(r'\$([^$]+)\$', ...) over the result *)

\* the index of the delimiter that closes a token opened by s[1] = d:
\* the next d, provided at least one character lies between; 0 if none
TokenEnd(s, d) ==
    LET j == Find(Tail(s), <<d>>)
    IN IF j > 1 THEN j + 1 ELSE 0

\* a scan that goes on inside the value it has just inserted
RECURSIVE ReplaceVariableRecursive(_, _)
ReplaceVariableRecursive(e, s) ==
    IF s = <<>> THEN <<>>
    ELSE IF Head(s) = "%" /\ TokenEnd(s, "%") > 0
    THEN LET Token(k) ==
                 ReplaceVariableRecursive(
                     e, _get_variable_value(e, SubSeq(s, 2, k - 1)) \o Drop(s, k))
         IN Token(TokenEnd(s, "%"))
    ELSE <<Head(s)>> \o ReplaceVariableRecursive(e, Tail(s))

\* a replace_variable call of the scan raises
RECURSIVE ReplaceVariableRaises(_, _)
ReplaceVariableRaises(e, s) ==
    IF s = <<>> THEN FALSE
    ELSE IF Head(s) = "%" /\ TokenEnd(s, "%") > 0
    THEN LET Token(k) ==
                 \/ GetVariableValueRaises(e, SubSeq(s, 2, k - 1))
                 \/ ReplaceVariableRaises(e, Drop(s, k))
         IN Token(TokenEnd(s, "%"))
    ELSE ReplaceVariableRaises(e, Tail(s))

RECURSIVE replace_variable(_, _)
replace_variable(e, s) ==
    IF s = <<>> THEN <<>>
    ELSE IF Head(s) = "%" /\ TokenEnd(s, "%") > 0
    THEN LET Token(k) ==
                 Str(_get_variable_value(e, SubSeq(s, 2, k - 1)))
                 \o replace_variable(e, Drop(s, k))
         IN Token(TokenEnd(s, "%"))
    ELSE <<Head(s)>> \o replace_variable(e, Tail(s))

\* the call $func_content$ fails on engine e: the name is not in the dispatch
\* table, or the built-in raises (a wrong number of arguments included)
CallFails(e, func_content) ==
    LET Failed(parts) ==
            /\ parts /= <<>>
            /\ \/ Head(parts) \notin FunctionNames
               \/ Apply(e, Head(parts), Tail(parts)).raised
    IN Failed(SplitWS(Strip(func_content)))

\* a pass that a failing call ends: the call is replaced by the empty string
\* and the text after it is kept as it is
RECURSIVE ReplaceFunctionAborts(_, _)
ReplaceFunctionAborts(e, s) ==
    IF s = <<>> THEN [text |-> <<>>, e |-> e]
    ELSE IF Head(s) = "$" /\ TokenEnd(s, "$") > 0
    THEN LET After(c, rest) == [text |-> Str(c.val) \o rest.text, e |-> rest.e]
             Called(k, c) ==
                 IF CallFails(e, SubSeq(s, 2, k - 1))
                 THEN [text |-> Drop(s, k), e |-> e]
                 ELSE After(c, ReplaceFunctionAborts(c.e, Drop(s, k)))
             Token(k) == Called(k, _call_function(e, SubSeq(s, 2, k - 1)))
         IN Token(TokenEnd(s, "$"))
    ELSE LET Kept(rest) == [text |-> <<Head(s)>> \o rest.text, e |-> rest.e]
         IN Kept(ReplaceFunctionAborts(e, Tail(s)))

\* returns [text, e]: the calls run left to right, each on the engine the
\* call to its left left behind
RECURSIVE replace_function(_, _)
replace_function(e, s) ==
    IF s = <<>> THEN [text |-> <<>>, e |-> e]
    ELSE IF Head(s) = "$" /\ TokenEnd(s, "$") > 0
    THEN LET After(c, rest) == [text |-> Str(c.val) \o rest.text, e |-> rest.e]
             Called(k, c) == After(c, replace_function(c.e, Drop(s, k)))
             Token(k) == Called(k, _call_function(e, SubSeq(s, 2, k - 1)))
         IN Token(TokenEnd(s, "$"))
    ELSE LET Kept(rest) == [text |-> <<Head(s)>> \o rest.text, e |-> rest.e]
         IN Kept(replace_function(e, Tail(s)))

\* one scan, left to right, over both kinds of token: each token is replaced
\* as it is met, on the engine the tokens to its left left behind
RECURSIVE InterleavedScan(_, _)
InterleavedScan(e, text) ==
    IF text = <<>> THEN [text |-> <<>>, e |-> e]
    ELSE IF Head(text) = "%" /\ TokenEnd(text, "%") > 0
    THEN LET After(v, rest) == [text |-> v \o rest.text, e |-> rest.e]
             Token(k) == After(_get_variable_value(e, SubSeq(text, 2, k - 1)),
                               InterleavedScan(e, Drop(text, k)))
         IN Token(TokenEnd(text, "%"))
    ELSE IF Head(text) = "$" /\ TokenEnd(text, "$") > 0
    THEN LET After(c, rest) == [text |-> c.val \o rest.text, e |-> rest.e]
             Called(k, c) == After(c, InterleavedScan(c.e, Drop(text, k)))
             Token(k) == Called(k, _call_function(e, SubSeq(text, 2, k - 1)))
         IN Token(TokenEnd(text, "$"))
    ELSE LET Kept(rest) == [text |-> <<Head(text)>> \o rest.text, e |-> rest.e]
         IN Kept(InterleavedScan(e, Tail(text)))

InterleavedPass(e, text) ==
    LET Done(r) == [text |-> r.text, e |-> r.e, raised |-> FALSE]
    IN IF ReplaceVariableRaises(e, text)
       THEN [text |-> <<>>, e |-> e, raised |-> TRUE]
       ELSE Done(InterleavedScan(e, text))

\* returns [text, e, raised]: raised = an exception left the call (one of the
\* replace_variable calls raised; what a function raises, _call_function
\* catches)
_process_variables_and_functions(e, text) ==
    LET Done(r) == [text |-> r.text, e |-> r.e, raised |-> FALSE]
    IN IF ReplaceVariableRaises(e, text)
       THEN [text |-> <<>>, e |-> e, raised |-> TRUE]
       ELSE Done(replace_function(e, replace_variable(e, text)))

-----------------------------------------------------------------------------
(* the Condition Evaluator *)

IF_ZH == <<"ru2", "guo3", ":">>
IF_EN == <<"i", "f", ":">>
ELSE_MARK == <<"e", "l", "s", "e">>
RETURN_MARK == <<"fan3", "hui2">>
ENDIF_MARK == <<"ru2", "guo3", "wei3">>

\* float(left.strip()) OP float(right.strip()); a ValueError makes it False
FloatCompare(expr, op) ==
    LET Rel(l, r) ==
            /\ l.ok
            /\ r.ok
            /\ CASE op = <<"<", "=">> -> l.val <= r.val
                 [] op = <<">", "=">> -> l.val >= r.val
                 [] op = <<"<">> -> l.val < r.val
                 [] op = <<">">> -> l.val > r.val
        Sides(lr) == Rel(ParseFloat(lr[1]), ParseFloat(lr[2]))
    IN Sides(Split1(expr, op))

\* returns [val, e, raised]; the guard is substituted first, outside the try
\* block, and so is every sub-clause of an & or | guard again, inside the try
\* block of the guard it is a sub-clause of
RECURSIVE _evaluate_condition(_, _)
RECURSIVE AllParts(_, _)
RECURSIVE AnyParts(_, _)
_evaluate_condition(e0, expr0) ==
    LET Compare(expr, e) ==
            IF Contains(expr, <<"=", "=">>)
            THEN LET lr == Split1(expr, <<"=", "=">>)
                 IN [val |-> Strip(lr[1]) = Strip(lr[2]), e |-> e]
            ELSE IF Contains(expr, <<"!", "=">>)
            THEN LET lr == Split1(expr, <<"!", "=">>)
                 IN [val |-> Strip(lr[1]) /= Strip(lr[2]), e |-> e]
            ELSE IF Contains(expr, <<"<", "=">>) THEN [val |-> FloatCompare(expr, <<"<", "=">>), e |-> e]
            ELSE IF Contains(expr, <<">", "=">>) THEN [val |-> FloatCompare(expr, <<">", "=">>), e |-> e]
            ELSE IF Contains(expr, <<"<">>) THEN [val |-> FloatCompare(expr, <<"<">>), e |-> e]
            ELSE IF Contains(expr, <<">">>) THEN [val |-> FloatCompare(expr, <<">">>), e |-> e]
            ELSE IF Contains(expr, <<"&">>) THEN AllParts(e, SplitAll(expr, <<"&">>))
            ELSE IF Contains(expr, <<"|">>) THEN AnyParts(e, SplitAll(expr, <<"|">>))
            ELSE LET Bool(s, f) ==
                         [val |-> IF f.ok THEN f.val /= 0
                                  ELSE Lower(s) \in { <<"t", "r", "u", "e">>, <<"1">>, <<"y", "e", "s">> },
                          e |-> e]
                 IN Bool(Strip(expr), ParseFloat(Strip(expr)))
        Evaluated(r) == [val |-> r.val, e |-> r.e, raised |-> FALSE]
        Substituted(p) ==
            IF p.raised THEN [val |-> FALSE, e |-> p.e, raised |-> TRUE]
            ELSE Evaluated(Compare(p.text, p.e))
    IN Substituted(_process_variables_and_functions(e0, expr0))

\* all(... for part in parts): stops at the first false sub-clause; what a
\* sub-clause raises is caught (line 441) and makes the guard false
AllParts(e, parts) ==
    IF parts = <<>> THEN [val |-> TRUE, e |-> e]
    ELSE LET Rest(r) ==
                 IF r.raised THEN [val |-> FALSE, e |-> r.e]
                 ELSE IF r.val THEN AllParts(r.e, Tail(parts))
                 ELSE [val |-> FALSE, e |-> r.e]
         IN Rest(_evaluate_condition(e, Strip(Head(parts))))

\* any(... for part in parts): stops at the first true sub-clause
AnyParts(e, parts) ==
    IF parts = <<>> THEN [val |-> FALSE, e |-> e]
    ELSE LET Rest(r) ==
                 IF r.raised THEN [val |-> FALSE, e |-> r.e]
                 ELSE IF r.val THEN [val |-> TRUE, e |-> r.e]
                 ELSE AnyParts(r.e, Tail(parts))
         IN Rest(_evaluate_condition(e, Strip(Head(parts))))

\* the scan of one branch from index i: the lines up to the first line that
\* starts with one of `stops`, or the return marker found before it.
\* returns [returned, content, i]: i is the index the scan stopped at
RECURSIVE ScanBranch(_, _, _, _)
ScanBranch(conditions, i, stops, acc) ==
    IF i > Len(conditions) THEN [returned |-> FALSE, content |-> acc, i |-> i]
    ELSE LET current_line == Strip(conditions[i])
         IN IF StartsWith(current_line, RETURN_MARK)
            THEN [returned |-> TRUE, content |-> acc, i |-> i]
            ELSE IF \E m \in stops : StartsWith(current_line, m)
            THEN [returned |-> FALSE, content |-> acc, i |-> i]
            ELSE ScanBranch(conditions, i + 1, stops, Append(acc, conditions[i]))

\* the while loop of _process_conditions from index i; returns
\* [val, e, raised], val an Optional[str]
RECURSIVE ProcessConditionsFrom(_, _, _)
ProcessConditionsFrom(e, conditions, i) ==
    IF i > Len(conditions) THEN [val |-> NoneV, e |-> e, raised |-> FALSE]
    ELSE LET condition == Strip(conditions[i])
             \* what a branch scanned as b gives, on engine e1
             Branch(b, e1) ==
                 IF b.returned THEN [val |-> Some(<<>>), e |-> e1, raised |-> FALSE]
                 ELSE [val |-> Some(Join(b.content, <<NL>>)), e |-> e1, raised |-> FALSE]
             \* the jump to the else block: lines 378-397; s is the scan of
             \* the if block that was not selected
             Jump(s, e1) ==
                 IF s.returned THEN [val |-> Some(<<>>), e |-> e1, raised |-> FALSE]
                 ELSE IF s.i <= Len(conditions)
                         /\ StartsWith(Strip(conditions[s.i]), ELSE_MARK)
                 THEN Branch(ScanBranch(conditions, s.i + 1, {ENDIF_MARK}, <<>>), e1)
                 ELSE ProcessConditionsFrom(e1, conditions, s.i + 1)
             \* g is the guard's evaluation; the if block: lines 365-375
             Guarded(g) ==
                 IF g.raised THEN [val |-> NoneV, e |-> g.e, raised |-> TRUE]
                 ELSE IF g.val
                 THEN Branch(ScanBranch(conditions, i + 1, {ELSE_MARK, ENDIF_MARK}, <<>>), g.e)
                 ELSE Jump(ScanBranch(conditions, i + 1, {ELSE_MARK, ENDIF_MARK}, <<>>), g.e)
         IN IF StartsWith(condition, IF_ZH) \/ StartsWith(condition, IF_EN)
            THEN Guarded(_evaluate_condition(e, Strip(Drop(condition, 3))))
            ELSE ProcessConditionsFrom(e, conditions, i + 1)

_process_conditions(e, conditions) == ProcessConditionsFrom(e, conditions, 1)

-----------------------------------------------------------------------------
(* the Rule Engine *)

\* a generator that substitutes the whole condition list before it chooses a
\* branch: the calls of both branches run
GenerateResponseAllBranches(e, entry) ==
    LET Processed(r) == [val |-> r.text, e |-> r.e, raised |-> r.raised]
        Respond(c) ==
            IF c.raised THEN [val |-> <<>>, e |-> c.e, raised |-> TRUE]
            ELSE IF entry.conditions /= <<>> /\ Truthy(c.val)
            THEN Processed(_process_variables_and_functions(c.e, c.val.val))
            ELSE IF entry.responses /= <<>>
            THEN Processed(_process_variables_and_functions(c.e, Join(entry.responses, <<NL>>)))
            ELSE [val |-> <<>>, e |-> c.e, raised |-> FALSE]
    IN Respond(IF entry.conditions /= <<>>
               THEN _process_conditions(
                        _process_variables_and_functions(
                            e, Join(entry.conditions, <<NL>>)).e,
                        entry.conditions)
               ELSE [val |-> NoneV, e |-> e, raised |-> FALSE])

\* returns [val, e, raised], val a str
_generate_response(e, entry) ==
    LET Processed(r) == [val |-> r.text, e |-> r.e, raised |-> r.raised]
        \* c is what _process_conditions returned, on the engine it left
        Respond(c) ==
            IF c.raised THEN [val |-> <<>>, e |-> c.e, raised |-> TRUE]
            ELSE IF entry.conditions /= <<>> /\ Truthy(c.val)
            THEN Processed(_process_variables_and_functions(c.e, c.val.val))
            ELSE IF entry.responses /= <<>>
            THEN Processed(_process_variables_and_functions(c.e, Join(entry.responses, <<NL>>)))
            ELSE [val |-> <<>>, e |-> c.e, raised |-> FALSE]
    IN Respond(IF entry.conditions /= <<>>
               THEN _process_conditions(e, entry.conditions)
               ELSE [val |-> NoneV, e |-> e, raised |-> FALSE])

\* a loop that does not stop at the first matching entry: every entry's
\* trigger is matched, and the last entry that matches generates the response
RECURSIVE ProcessFromLast(_, _, _)
ProcessFromLast(e, message, i) ==
    IF i > Len(e.entries)
    THEN [val |-> NoneV, e |-> e, hit |-> 0, tried |-> {}, raised |-> FALSE]
    ELSE LET Generated(g) ==
                 [val |-> IF g.raised THEN NoneV ELSE Some(g.val), e |-> g.e,
                  hit |-> i, tried |-> {i}, raised |-> g.raised]
             Later(m, r) ==
                 IF m.matched /\ r.hit = 0
                 THEN Generated(_generate_response(m.e, e.entries[i]))
                 ELSE [r EXCEPT !.tried = @ \cup {i}]
             Matched(m) == Later(m, ProcessFromLast(m.e, message, i + 1))
         IN Matched(_match_trigger(e, e.entries[i].trigger, message))

\* a loop that treats an empty response as no response, and goes on to the
\* next entry
RECURSIVE ProcessFromTruthy(_, _, _)
ProcessFromTruthy(e, message, i) ==
    IF i > Len(e.entries)
    THEN [val |-> NoneV, e |-> e, hit |-> 0, tried |-> {}, raised |-> FALSE]
    ELSE LET Generated(g) ==
                 IF g.raised \/ g.val /= <<>>
                 THEN [val |-> IF g.raised THEN NoneV ELSE Some(g.val), e |-> g.e,
                       hit |-> i, tried |-> {i}, raised |-> g.raised]
                 ELSE [ProcessFromTruthy(g.e, message, i + 1) EXCEPT !.tried = @ \cup {i}]
             Matched(m) ==
                 IF m.matched
                 THEN Generated(_generate_response(m.e, e.entries[i]))
                 ELSE [ProcessFromTruthy(m.e, message, i + 1) EXCEPT !.tried = @ \cup {i}]
         IN Matched(_match_trigger(e, e.entries[i].trigger, message))

\* the for loop of process_message from entry i.
\* returns [val, e, hit, tried, raised]: val the Optional[str] returned, hit
\* the index of the entry whose response was generated (0 if none), tried the
\* indices of the entries whose trigger was matched against the message,
\* raised = an exception left the call instead of a value
RECURSIVE ProcessFrom(_, _, _)
ProcessFrom(e, message, i) ==
    IF i > Len(e.entries)
    THEN [val |-> NoneV, e |-> e, hit |-> 0, tried |-> {}, raised |-> FALSE]
    ELSE LET Generated(g) ==
                 [val |-> IF g.raised THEN NoneV ELSE Some(g.val), e |-> g.e,
                  hit |-> i, tried |-> {i}, raised |-> g.raised]
             Matched(m) ==
                 IF m.matched
                 THEN Generated(_generate_response(m.e, e.entries[i]))
                 ELSE [ProcessFrom(m.e, message, i + 1) EXCEPT !.tried = @ \cup {i}]
         IN Matched(_match_trigger(e, e.entries[i].trigger, message))

\* a call that starts from an empty Variable Store
ProcessMessageFreshStore(e, message, context) ==
    ProcessFrom([e EXCEPT !.message_context = context,
                          !.global_variables = EmptyDict], message, 1)

process_message(e, message, context) ==
    ProcessFrom([e EXCEPT !.message_context = context], message, 1)

-----------------------------------------------------------------------------
(* the Lexicon Parser; `lines` is content.split('\n'), indexed from 1 *)

VAR_BLOCK == <<"#", "-", ">", "v", "a", "r", ":">>

_is_comment_line(line) ==
    StartsWith(line, <<"/", "/">>) \/ StartsWith(line, <<"#", "#">>) \/ StartsWith(line, <<"&", "&">>)

\* no '%' in the line, and re.match(r'^[a-zA-Z0-9]:.*') or re.match(r'^.{1,3}:.*'):
\* a ':' follows the first one, two or three characters (the first pattern
\* is the one-character case of the second)
_is_variable_definition(line) ==
    /\ ~Contains(line, <<"%">>)
    /\ \E k \in 1..3 : Len(line) > k /\ line[k + 1] = ":"

\* line.split(':', 1), both parts stripped
_parse_variable_definition(line) ==
    LET parts == Split1(line, <<":">>)
    IN <<Strip(parts[1]), Strip(parts[2])>>

\* the look-back of _looks_like_trigger from index i down: what the nearest
\* line that is not a comment is
RECURSIVE LookBack(_, _)
LookBack(lines, i) ==
    IF i < 1 THEN "start"
    ELSE IF Strip(lines[i]) = <<>> THEN "empty"
    ELSE IF _is_comment_line(Strip(lines[i])) THEN LookBack(lines, i - 1)
    ELSE "content"

\* a test without the look-back: every line that is no definition and no
\* directive starts a rule
LooksLikeTriggerAnywhere(line, index, lines) ==
    ~(\/ _is_variable_definition(line)
      \/ StartsWith(line, IF_ZH) \/ StartsWith(line, IF_EN)
      \/ StartsWith(line, VAR_BLOCK)
      \/ StartsWith(line, ELSE_MARK) \/ StartsWith(line, RETURN_MARK)
      \/ StartsWith(line, ENDIF_MARK))

_looks_like_trigger(line, index, lines) ==
    IF \/ _is_variable_definition(line)
       \/ StartsWith(line, IF_ZH) \/ StartsWith(line, IF_EN)
       \/ StartsWith(line, VAR_BLOCK)
       \/ StartsWith(line, ELSE_MARK) \/ StartsWith(line, RETURN_MARK)
       \/ StartsWith(line, ENDIF_MARK)
    THEN FALSE
    ELSE LookBack(lines, index - 1) /= "content"

\* returns <<content_lines, i>>
RECURSIVE LineVariableFrom(_, _, _)
LineVariableFrom(lines, i, content_lines) ==
    IF i > Len(lines) THEN <<content_lines, i>>
    ELSE LET line_stripped == Strip(lines[i])
         IN IF \/ StartsWith(line_stripped, VAR_BLOCK)
               \/ line_stripped = <<>>
               \/ _is_comment_line(line_stripped)
               \/ _looks_like_trigger(line_stripped, i, lines)
            THEN <<content_lines, i>>
            ELSE LineVariableFrom(lines, i + 1, Append(content_lines, lines[i]))

\* returns <<var_content, next_i>>
_parse_line_variable(lines, start_index) ==
    LET r == LineVariableFrom(lines, start_index + 1, <<>>)
    IN <<Join(r[1], <<NL>>), r[2]>>

RECURSIVE ConditionBlockFrom(_, _, _)
ConditionBlockFrom(lines, i, conditions) ==
    IF i > Len(lines) THEN <<conditions, i>>
    ELSE LET line == Strip(lines[i])
         IN IF StartsWith(line, ENDIF_MARK) \/ line = <<>>
            THEN <<conditions, i>>
            ELSE ConditionBlockFrom(lines, i + 1, Append(conditions, line))

\* returns <<conditions, next_i>>: next_i is one past the line that ended the block
_parse_condition_block(lines, start_index) ==
    LET r == ConditionBlockFrom(lines, start_index, <<>>)
    IN <<r[1], r[2] + 1>>

\* a loop that leaves out the lines that fit no class
RECURSIVE EntryBodySkipsPlain(_, _, _)
EntryBodySkipsPlain(lines, i, acc) ==
    IF i > Len(lines) THEN [acc |-> acc, i |-> i]
    ELSE LET line == Strip(lines[i])
         IN IF line = <<>> THEN [acc |-> acc, i |-> i]
            ELSE IF _is_comment_line(line) THEN EntryBodySkipsPlain(lines, i + 1, acc)
            ELSE IF _looks_like_trigger(line, i, lines) THEN [acc |-> acc, i |-> i]
            ELSE IF _is_variable_definition(line)
            THEN LET kv == _parse_variable_definition(line)
                 IN EntryBodySkipsPlain(lines, i + 1,
                                        [acc EXCEPT !.variables = DictSet(@, kv[1], kv[2])])
            ELSE IF StartsWith(line, VAR_BLOCK)
            THEN LET r == _parse_line_variable(lines, i)
                     name == Strip(Drop(line, 7))
                     var_name == IF name = <<>> THEN <<"d", "e", "f", "a", "u", "l", "t", "_", "v", "a", "r">> ELSE name
                 IN EntryBodySkipsPlain(lines, r[2],
                                        [acc EXCEPT !.variables = DictSet(@, var_name, r[1])])
            ELSE IF StartsWith(line, IF_ZH) \/ StartsWith(line, IF_EN)
            THEN LET r == _parse_condition_block(lines, i)
                 IN EntryBodySkipsPlain(lines, r[2], [acc EXCEPT !.conditions = @ \o r[1]])
            ELSE EntryBodySkipsPlain(lines, i + 1, acc)

\* the while loop of _parse_entry from line i; acc is the record
\* [responses, variables, conditions]; returns [acc, i]
RECURSIVE EntryBodyFrom(_, _, _)
EntryBodyFrom(lines, i, acc) ==
    IF i > Len(lines) THEN [acc |-> acc, i |-> i]
    ELSE LET line == Strip(lines[i])
         IN IF line = <<>> THEN [acc |-> acc, i |-> i]
            ELSE IF _is_comment_line(line) THEN EntryBodyFrom(lines, i + 1, acc)
            ELSE IF _looks_like_trigger(line, i, lines) THEN [acc |-> acc, i |-> i]
            ELSE IF _is_variable_definition(line)
            THEN LET kv == _parse_variable_definition(line)
                 IN EntryBodyFrom(lines, i + 1,
                                  [acc EXCEPT !.variables = DictSet(@, kv[1], kv[2])])
            ELSE IF StartsWith(line, VAR_BLOCK)
            THEN LET r == _parse_line_variable(lines, i)
                     name == Strip(Drop(line, 7))
                     var_name == IF name = <<>> THEN <<"d", "e", "f", "a", "u", "l", "t", "_", "v", "a", "r">> ELSE name
                 IN EntryBodyFrom(lines, r[2],
                                  [acc EXCEPT !.variables = DictSet(@, var_name, r[1])])
            ELSE IF StartsWith(line, IF_ZH) \/ StartsWith(line, IF_EN)
            THEN LET r == _parse_condition_block(lines, i)
                 IN EntryBodyFrom(lines, r[2], [acc EXCEPT !.conditions = @ \o r[1]])
            ELSE EntryBodyFrom(lines, i + 1, [acc EXCEPT !.responses = Append(@, line)])

\* returns [entry, next_i]: entry is <<>> (None) or <<the LexiconEntry>>.
\* category, enabled and id of a LexiconEntry are never read by the engine
_parse_entry(lines, start_index) ==
    LET r == EntryBodyFrom(lines, start_index + 1,
                           [responses |-> <<>>, variables |-> EmptyDict, conditions |-> <<>>])
        a == r.acc
    IN IF a.responses /= <<>> \/ DOMAIN a.variables /= {} \/ a.conditions /= <<>>
       THEN [entry |-> <<[trigger |-> Strip(lines[start_index]),
                          responses |-> a.responses,
                          variables |-> a.variables,
                          conditions |-> a.conditions]>>,
             next_i |-> r.i]
       ELSE [entry |-> <<>>, next_i |-> r.i]

RECURSIVE ParseFrom(_, _)
ParseFrom(lines, i) ==
    IF i > Len(lines) THEN <<>>
    ELSE LET line == Strip(lines[i])
         IN IF _is_comment_line(line) \/ line = <<>> THEN ParseFrom(lines, i + 1)
            ELSE LET r == _parse_entry(lines, i)
                 IN r.entry \o ParseFrom(lines, r.next_i)

_parse_lexicon_content(content) == ParseFrom(SplitAll(content, <<NL>>), 1)

-----------------------------------------------------------------------------
(* the files on disk, the inbound messages and the contexts *)

\* overlapping triggers, a trigger with a group, a trigger that does not compile
LEX_FIRST == <<"a", "\n", "A", "\n", "\n", "a", "(", "b", ")", "\n", "$", "bian4", "liang4", " ", "m", " ", "B", "$", "B", "\n", "\n", "(", "b", "\n", "P", "\n">>

\* if / else blocks, with and without a return line and plain response lines
LEX_COND == <<"/", "/", " ", "c", "o", "n", "d", "\n", "t", "\n", "ru2", "guo3", ":", "%", "Q", "Q", "%", "=", "=", "1", "2", "3", "4", "5", "6", "\n", "a", "d", "m", "i", "n", "\n", "e", "l", "s", "e", "\n", "u", "s", "e", "r", "\n", "ru2", "guo3", "wei3", "\n", "\n", "r", "\n", "h", "i", "\n", "ru2", "guo3", ":", "%", "Q", "Q", "%", "=", "=", "1", "\n", "fan3", "hui2", "\n", "ru2", "guo3", "wei3", "\n", "\n", "s", "\n", "ru2", "guo3", ":", "%", "Q", "Q", "%", "=", "=", "1", "\n", "fan3", "hui2", "\n", "e", "l", "s", "e", "\n", "o", "k", "\n", "ru2", "guo3", "wei3", "\n">>

\* variable and function tokens
LEX_SUBST == <<"n", "\n", "%", "ni4", "cheng1", "%", "\n", "\n", "c", "(", ".", "*", ")", "\n", "%", "kuo4", "hao4", "1", "%", "\n", "\n", "k", "\n", "$", "bian4", "liang4", " ", "k", " ", "v", "$", "%", "k", "%", "\n", "\n", "q", "\n", "[", "%", "Q", "Q", "%", "|", "%", "x", "%", "]", "\n", "\n", "w", "\n", "$", "bian4", "liang4", " ", "Q", "Q", " ", "7", "$", "\n">>

\* func.txt: templates with a function call that fails. f: a call with one
\* argument too few, then a variable and a call that succeeds; g: a call that
\* succeeds, a variable, then a name the dispatch table does not have; h: a
\* built-in that raises when the context cannot be serialised
LEX_FUNC == <<"f", "\n", "A", "$", "bian4", "liang4", " ", "k", "$", "B", "%", "Q", "Q", "%", "$", "zi4", "fu2", "chang2", "du4", " ", "a", "b", "$", "\n", "\n", "g", "\n", "$", "bian4", "liang4", " ", "g", " ", "v", "$", "%", "Q", "Q", "%", "$", "n", "o", "p", "e", " ", "1", "$", "C", "\n", "\n", "h", "\n", "$", "qu3", "bian4", "liang4", " ", "x", "$", "o", "k", "%", "n", "i", "c", "k", "n", "a", "m", "e", "%", "\n">>

\* store.txt: a trigger with two groups, a trigger with one group whose
\* template reads capture 2, parameter 1 and m, and a rule that sets m
LEX_STORE == <<"p", "(", ".", ")", "(", ".", ")", "\n", "%", "kuo4", "hao4", "1", "%", "%", "kuo4", "hao4", "2", "%", "\n", "\n", "o", "(", ".", ")", "\n", "%", "kuo4", "hao4", "1", "%", "-", "%", "kuo4", "hao4", "2", "%", "-", "%", "can1", "shu4", "1", "%", "-", "%", "m", "%", "\n", "\n", "u", "\n", "$", "bian4", "liang4", " ", "m", " ", "B", "$", "U", "\n">>

\* caps.txt: the trigger ce4shi4(.*) (.*) with the template
\* %capture 1%-%capture 2%, and a trigger with a group inside a group
LEX_CAPS == <<"ce4", "shi4", "(", ".", "*", ")", " ", "(", ".", "*", ")", "\n", "%", "kuo4", "hao4", "1", "%", "-", "%", "kuo4", "hao4", "2", "%", "\n", "\n", "w", "(", "(", "x", ")", "y", ")", "\n", "[", "%", "kuo4", "hao4", "1", "%", "|", "%", "kuo4", "hao4", "2", "%", "]", "\n">>

MSG_FOO_BAR == <<"ce4", "shi4", " ", "f", "o", "o", " ", "b", "a", "r">>

\* both.txt: rule d has plain response lines around an if block without an
\* else line; rule e has the block alone
LEX_BOTH == <<"d", "\n", "h", "i", "\n", "ru2", "guo3", ":", "%", "Q", "Q", "%", "=", "=", "1", "\n", "a", "d", "m", "i", "n", "\n", "ru2", "guo3", "wei3", "\n", "b", "y", "e", "\n", "\n", "e", "\n", "ru2", "guo3", ":", "%", "Q", "Q", "%", "=", "=", "1", "\n", "a", "d", "m", "i", "n", "\n", "ru2", "guo3", "wei3", "\n">>

\* local.txt: the rule of the sample lexicon with two K:V definitions and a
\* template that reads them, and a rule that reads A without defining it
LEX_LOCAL == <<"v", "\n", "A", ":", "H", "\n", "B", ":", "W", "\n", "%", "A", "%", " ", "%", "B", "%", "!", "\n", "\n", "j", "\n", "[", "%", "A", "%", "]", "\n">>

\* and.txt: guards with & and |: m joins two comparisons with &, n joins two
\* values with &, l joins two values with |
LEX_AND == <<"m", "\n", "ru2", "guo3", ":", "%", "Q", "Q", "%", "=", "=", "1", "&", "1", "=", "=", "1", "\n", "y", "e", "s", "\n", "e", "l", "s", "e", "\n", "n", "o", "\n", "ru2", "guo3", "wei3", "\n", "\n", "n", "\n", "ru2", "guo3", ":", "%", "Q", "Q", "%", "&", "1", "\n", "y", "e", "s", "\n", "e", "l", "s", "e", "\n", "n", "o", "\n", "ru2", "guo3", "wei3", "\n", "\n", "l", "\n", "ru2", "guo3", ":", "%", "Q", "Q", "%", "|", "0", "\n", "y", "e", "s", "\n", "e", "l", "s", "e", "\n", "n", "o", "\n", "ru2", "guo3", "wei3", "\n">>

\* a rule with two if-blocks one after the other, and a rule whose two
\* branches each hold a function call:
\*   2 / if:%QQ%==1 / A / endif / if:%QQ%==1 / B / endif
\*   c(.*) / if:%QQ%==1 / %bracket1%$set i 1$ / else / $set j 2$no / endif
LEX_BLOCKS == <<"2", "\n", "ru2", "guo3", ":", "%", "Q", "Q", "%", "=", "=", "1", "\n", "A", "\n", "ru2", "guo3", "wei3", "\n", "ru2", "guo3", ":", "%", "Q", "Q", "%", "=", "=", "1", "\n", "B", "\n", "ru2", "guo3", "wei3", "\n", "\n", "c", "(", ".", "*", ")", "\n", "ru2", "guo3", ":", "%", "Q", "Q", "%", "=", "=", "1", "\n", "%", "kuo4", "hao4", "1", "%", "$", "bian4", "liang4", " ", "i", " ", "1", "$", "\n", "e", "l", "s", "e", "\n", "$", "bian4", "liang4", " ", "j", " ", "2", "$", "n", "o", "\n", "ru2", "guo3", "wei3", "\n">>

\* an inbound message that holds a function call: c, then $set i 1$
MSG_CALL == <<"c", "$", "bian4", "liang4", " ", "i", " ", "1", "$">>

\* a disk maps each path that exists to what open(path).read() gives: the
\* text, or an exception (a file that is not UTF-8 text, a directory)
Text(content) == [readable |-> TRUE, content |-> content]
Unreadable == [readable |-> FALSE, content |-> <<>>]

EngineDisk ==
    ("first.txt" :> Text(LEX_FIRST)) @@ ("cond.txt" :> Text(LEX_COND))
    @@ ("subst.txt" :> Text(LEX_SUBST)) @@ ("func.txt" :> Text(LEX_FUNC))
    @@ ("store.txt" :> Text(LEX_STORE)) @@ ("caps.txt" :> Text(LEX_CAPS))
    @@ ("both.txt" :> Text(LEX_BOTH)) @@ ("local.txt" :> Text(LEX_LOCAL))
    @@ ("and.txt" :> Text(LEX_AND)) @@ ("blocks.txt" :> Text(LEX_BLOCKS))

EnginePaths == {"first.txt", "cond.txt", "subst.txt", "func.txt", "store.txt", "caps.txt", "both.txt", "local.txt", "and.txt", "blocks.txt", "missing.txt"}

Messages ==
    { <<"a">>, <<"a", "b">>, <<"(", "b">>, <<"(", "b", ")">>, <<"t">>, <<"r">>, <<"s">>, <<"n">>, <<"c", "%", "Q", "Q", "%">>, <<"k">>, <<"q">>, <<"w">>, <<"z", "z">>, <<"f">>, <<"g">>, <<"h">>, <<"p", "x", "y">>, <<"o", "z">>, <<"u", " ", "7">>, MSG_FOO_BAR, <<"w", "x", "y">>, <<"d">>, <<"e">>, <<"v">>, <<"j">>, <<"m">>, <<"l">>, MSG_CALL, <<"2">> }

CTX_GROUP ==
    (K_user_id :> <<"1", "2", "3", "4", "5", "6">>) @@ (K_nickname :> <<"%", "Q", "Q", "%">>) @@ (K_message_type :> <<"g", "r", "o", "u", "p">>)
CTX_QQ == (<<"Q", "Q">> :> <<"1">>) @@ (K_user_id :> <<"9">>)

Contexts == {CTX_GROUP, CTX_QQ}

\* a context map is Dict[str, Any]: this one carries a bytes value, which
\* json.dumps cannot serialise
CTX_BYTES == (K_nickname :> <<"N">>) @@ (<<"b", "l", "o", "b">> :> <<BYTES, "x">>)

AnyContexts == Contexts \cup {CTX_BYTES}

-----------------------------------------------------------------------------
(* the stand-alone engine *)

Engine == [entries |-> entries,
           global_variables |-> global_variables,
           message_context |-> message_context]

NewEngine == [entries |-> <<>>, global_variables |-> EmptyDict, message_context |-> EmptyDict]

\* what a call left behind: the operation, its arguments (content is the
\* lines of the file a "parse" call loaded), what it returned (val), and the
\* engine's Variable Store before the call (pre); hit and tried are those of
\* ProcessFrom
NoCall == [op |-> "init", file |-> "", message |-> <<>>, val |-> NoneV, ok |-> FALSE,
           hit |-> 0, tried |-> {}, pre |-> EmptyDict, raised |-> FALSE,
           content |-> <<>>]

\* returns [ok, e]
load_lexicon_file(e, disk, file_path) ==
    IF file_path \in DOMAIN disk /\ disk[file_path].readable
    THEN [ok |-> TRUE,
          e |-> [e EXCEPT !.entries = _parse_lexicon_content(disk[file_path].content)]]
    ELSE [ok |-> FALSE, e |-> e]

EngineInit ==
    /\ entries = NewEngine.entries
    /\ global_variables = NewEngine.global_variables
    /\ message_context = NewEngine.message_context
    /\ ret = NoCall

\* the callers construct an engine and load one file into it at once
\* (manager.py 59-60 and 87-88)
LoadLexiconFile(file_path) ==
    /\ ret.op = "init"
    /\ LET Loaded(r) ==
               /\ entries' = r.e.entries
               /\ ret' = [NoCall EXCEPT !.op = "load", !.file = file_path, !.ok = r.ok]
       IN Loaded(load_lexicon_file(Engine, EngineDisk, file_path))
    /\ UNCHANGED <<global_variables, message_context, managerVars, otherVars>>

ProcessMessage(message, context) ==
    /\ ret.op /= "init"
    /\ LET Processed(r) ==
               /\ global_variables' = r.e.global_variables
               /\ message_context' = r.e.message_context
               /\ ret' = [op |-> "process", file |-> ret.file, message |-> message,
                          val |-> r.val, ok |-> ~r.raised, hit |-> r.hit,
                          tried |-> r.tried, pre |-> global_variables,
                          raised |-> r.raised, content |-> <<>>]
       IN Processed(process_message(Engine, message, context))
    /\ UNCHANGED <<entries, managerVars, otherVars>>

\* the lines a lexicon file is made of: blank, a comment, two plain words,
\* a K:V definition, a guard without and with a variable, else, the end of
\* a block, and the head of a variable block
LineKinds ==
    { <<>>, <<"/", "/", "c">>, <<"t">>, <<"r">>, <<"K", ":", "V">>,
      IF_ZH \o <<"x">>, IF_ZH \o <<"%", "Q", "%">>, ELSE_MARK, ENDIF_MARK,
      VAR_BLOCK \o <<"n">> }

MaxLines == 5

Contents == UNION { [1..n -> LineKinds] : n \in 1..MaxLines }

\* load_lexicon_file on a file that holds the given lines
LoadLexiconText(lines) ==
    /\ ret.op = "init"
    /\ LET Loaded(r) ==
               /\ entries' = r.e.entries
               /\ ret' = [NoCall EXCEPT !.op = "parse", !.file = "in.txt", !.ok = r.ok,
                                        !.content = lines]
       IN Loaded(load_lexicon_file(Engine, ("in.txt" :> Text(Join(lines, <<NL>>))), "in.txt"))
    /\ UNCHANGED <<global_variables, message_context, managerVars, otherVars>>

EngineNext ==
    \/ \E file_path \in EnginePaths : LoadLexiconFile(file_path)
    \/ \E message \in Messages, context \in Contexts : ProcessMessage(message, context)

-----------------------------------------------------------------------------
(* LchliebedichWordLibManager: a manager is the record
   [engines, enabled_files, config_json]; engines is the dict as the sequence
   of its [filename, engine] items in insertion order *)

\* a.txt answers x with an empty reply (the rule matches and suppresses)
LEX_A == <<"x", "\n", "ru2", "guo3", ":", "%", "Q", "Q", "%", "=", "=", "1", "\n", "fan3", "hui2", "\n", "ru2", "guo3", "wei3", "\n", "\n", "y", "\n", "A", "y", "\n">>
LEX_B == <<"x", "\n", "B", "x", "\n", "\n", "y", "\n", "B", "y", "\n">>

\* the files of wordlib_dir; gone.txt does not exist
ManagerDisk == ("a.txt" :> Text(LEX_A)) @@ ("b.txt" :> Text(LEX_B)) @@ ("bad.txt" :> Unreadable)
FileNames == {"a.txt", "b.txt", "bad.txt", "gone.txt"}

\* filename.endswith('.txt') over os.listdir(wordlib_dir), which also lists config.json
Listing == (DOMAIN ManagerDisk) \cup {"config.json"}
EndsWithTxt(filename) == filename \in {"a.txt", "b.txt", "bad.txt", "gone.txt"}

\* os.listdir returns the names in arbitrary order
ListdirOrders ==
    {o \in [1..Cardinality(Listing) -> Listing] : \A f \in Listing : \E i \in DOMAIN o : o[i] = f}

ManagerMessages == { <<"x">>, <<"y">>, <<"z", "z">> }

InSeq(x, s) == \E i \in DOMAIN s : s[i] = x

\* list.remove(x): the first occurrence
RECURSIVE ListRemove(_, _)
ListRemove(s, x) ==
    IF s = <<>> THEN <<>>
    ELSE IF Head(s) = x THEN Tail(s)
    ELSE <<Head(s)>> \o ListRemove(Tail(s), x)

HasEngine(m, filename) == \E i \in DOMAIN m.engines : m.engines[i].filename = filename

\* self.engines[filename] = engine
EnginesSet(engs, filename, engine) ==
    IF \E i \in DOMAIN engs : engs[i].filename = filename
    THEN [i \in DOMAIN engs |->
             IF engs[i].filename = filename
             THEN [filename |-> filename, engine |-> engine] ELSE engs[i]]
    ELSE Append(engs, [filename |-> filename, engine |-> engine])

\* del self.engines[filename]
RECURSIVE EnginesDel(_, _)
EnginesDel(engs, filename) ==
    IF engs = <<>> THEN <<>>
    ELSE IF Head(engs).filename = filename THEN Tail(engs)
    ELSE <<Head(engs)>> \o EnginesDel(Tail(engs), filename)

ConfigAbsent == [state |-> "absent", enabled_files |-> <<>>]
ConfigCorrupt == [state |-> "corrupt", enabled_files |-> <<>>]
ConfigOf(files) == [state |-> "ok", enabled_files |-> files]

\* a save that writes nothing
SaveConfigNothing(m) == m

_save_config(m) == [m EXCEPT !.config_json = ConfigOf(m.enabled_files)]

\* the file is absent: enabled_files stays []; json.load raises: []
_load_config(m) ==
    IF m.config_json.state = "ok"
    THEN [m EXCEPT !.enabled_files = m.config_json.enabled_files]
    ELSE [m EXCEPT !.enabled_files = <<>>]

\* returns [ok, m]
load_wordlib_file(m, filename) ==
    IF filename \notin DOMAIN ManagerDisk THEN [ok |-> FALSE, m |-> m]
    ELSE LET Enable(m1) ==
                 [ok |-> TRUE,
                  m |-> IF ~InSeq(filename, m1.enabled_files)
                        THEN _save_config([m1 EXCEPT !.enabled_files = Append(@, filename)])
                        ELSE m1]
             Loaded(r) ==
                 IF r.ok THEN Enable([m EXCEPT !.engines = EnginesSet(@, filename, r.e)])
                 ELSE [ok |-> FALSE, m |-> m]
         IN Loaded(load_lexicon_file(NewEngine, ManagerDisk, filename))

\* an unload that takes the name off the enabled list and keeps the engine
UnloadKeepsEngine(m, filename) ==
    IF InSeq(filename, m.enabled_files)
    THEN _save_config([m EXCEPT !.enabled_files = ListRemove(@, filename)])
    ELSE m

unload_wordlib_file(m, filename) ==
    LET Disable(m1) ==
            IF InSeq(filename, m1.enabled_files)
            THEN _save_config([m1 EXCEPT !.enabled_files = ListRemove(@, filename)])
            ELSE m1
    IN Disable(IF HasEngine(m, filename)
               THEN [m EXCEPT !.engines = EnginesDel(@, filename)] ELSE m)

\* the two loops of _load_enabled_files
RECURSIVE LoadAllTxt(_, _)
LoadAllTxt(m, names) ==
    IF names = <<>> THEN m
    ELSE IF EndsWithTxt(Head(names))
    THEN LoadAllTxt(load_wordlib_file(m, Head(names)).m, Tail(names))
    ELSE LoadAllTxt(m, Tail(names))

\* a loop that the first file that is missing or unreadable ends
RECURSIVE LoadEnabledAborts(_, _)
LoadEnabledAborts(m, names) ==
    IF names = <<>> THEN m
    ELSE LET Loaded(r) ==
                 IF Head(names) \in DOMAIN ManagerDisk /\ r.ok
                 THEN LoadEnabledAborts(
                          [m EXCEPT !.engines = EnginesSet(@, Head(names), r.e)], Tail(names))
                 ELSE m
         IN Loaded(load_lexicon_file(NewEngine, ManagerDisk, Head(names)))

RECURSIVE LoadEnabled(_, _)
LoadEnabled(m, names) ==
    IF names = <<>> THEN m
    ELSE LET Loaded(r) ==
                 IF Head(names) \in DOMAIN ManagerDisk /\ r.ok
                 THEN LoadEnabled([m EXCEPT !.engines = EnginesSet(@, Head(names), r.e)], Tail(names))
                 ELSE LoadEnabled(m, Tail(names))
         IN Loaded(load_lexicon_file(NewEngine, ManagerDisk, Head(names)))

\* listdir is what os.listdir returns, should it be called
_load_enabled_files(m, listdir) ==
    IF m.enabled_files = <<>> THEN LoadAllTxt(m, listdir)
    ELSE LoadEnabled(m, m.enabled_files)

reload_all_wordlibs(m, listdir) ==
    _load_enabled_files([m EXCEPT !.engines = <<>>], listdir)

\* returns [ok, m]: ok is what toggle_wordlib_file returns
toggle_wordlib_file(m, filename) ==
    IF InSeq(filename, m.enabled_files)
    THEN [ok |-> FALSE, m |-> unload_wordlib_file(m, filename)]
    ELSE load_wordlib_file(m, filename)

\* the for loop of the manager's process_message from item i.
\* returns [val, m, calls]: calls lists, for each engine that was asked, its
\* file, the entry that its reply came from (hit) and the reply (val)
RECURSIVE ManagerProcessFrom(_, _, _, _)
ManagerProcessFrom(m, message, context, i) ==
    IF i > Len(m.engines) THEN [val |-> NoneV, m |-> m, calls |-> <<>>]
    ELSE IF InSeq(m.engines[i].filename, m.enabled_files)
    THEN LET Asked(r, m1, call) ==
                 IF Truthy(r.val)
                 THEN [val |-> r.val, m |-> m1, calls |-> <<call>>]
                 ELSE [ManagerProcessFrom(m1, message, context, i + 1)
                          EXCEPT !.calls = <<call>> \o @]
             Response(r) ==
                 Asked(r, [m EXCEPT !.engines[i].engine = r.e],
                       [filename |-> m.engines[i].filename, hit |-> r.hit, val |-> r.val])
         IN Response(process_message(m.engines[i].engine, message, context))
    ELSE ManagerProcessFrom(m, message, context, i + 1)

manager_process_message(m, message, context) == ManagerProcessFrom(m, message, context, 1)

\* __init__ over a wordlib_dir that holds `config`
NewManager(config, listdir) ==
    _load_enabled_files(
        _load_config([engines |-> <<>>, enabled_files |-> <<>>, config_json |-> config]),
        listdir)

-----------------------------------------------------------------------------
(* the manager's operations *)

Manager == [engines |-> engines, enabled_files |-> enabled_files, config_json |-> config_json]

SetManager(m) ==
    /\ engines' = m.engines
    /\ enabled_files' = m.enabled_files
    /\ config_json' = m.config_json

\* what a call on the manager left behind; calls is that of ManagerProcessFrom
NoManagerCall == [op |-> "init", filename |-> "", message |-> <<>>, val |-> NoneV,
                  ok |-> FALSE, calls |-> <<>>]

\* history.disabled: the files whose most recent enable/disable call (load,
\* unload, toggle) disabled them
NoHistory == [disabled |-> {}]

Enabled(h, filename) == [disabled |-> h.disabled \ {filename}]
Disabled(h, filename) == [disabled |-> h.disabled \cup {filename}]

\* the configurations the manager may find: none, one that is not JSON, and
\* lists as _save_config writes them (no name twice)
InitialConfigs ==
    { ConfigAbsent, ConfigCorrupt,
      ConfigOf(<<"a.txt">>), ConfigOf(<<"b.txt", "a.txt">>),
      ConfigOf(<<"gone.txt", "b.txt">>), ConfigOf(<<"bad.txt", "a.txt">>) }

ManagerInit ==
    /\ \E config \in InitialConfigs, listdir \in ListdirOrders :
          LET Constructed(m) ==
                  /\ engines = m.engines
                  /\ enabled_files = m.enabled_files
                  /\ config_json = m.config_json
          IN Constructed(NewManager(config, listdir))
    /\ mret = NoManagerCall
    /\ history = NoHistory

LoadWordlibFile(filename) ==
    /\ LET Loaded(r) ==
               /\ SetManager(r.m)
               /\ mret' = [NoManagerCall EXCEPT !.op = "load", !.filename = filename, !.ok = r.ok]
               /\ history' = IF r.ok THEN Enabled(history, filename) ELSE history
       IN Loaded(load_wordlib_file(Manager, filename))
    /\ UNCHANGED <<engineVars, otherVars>>

UnloadWordlibFile(filename) ==
    /\ SetManager(unload_wordlib_file(Manager, filename))
    /\ mret' = [NoManagerCall EXCEPT !.op = "unload", !.filename = filename, !.ok = TRUE]
    /\ history' = Disabled(history, filename)
    /\ UNCHANGED <<engineVars, otherVars>>

ToggleWordlibFile(filename) ==
    /\ LET Toggled(r) ==
               /\ SetManager(r.m)
               /\ mret' = [NoManagerCall EXCEPT !.op = "toggle", !.filename = filename, !.ok = r.ok]
               /\ history' = IF InSeq(filename, enabled_files) THEN Disabled(history, filename)
                             ELSE IF r.ok THEN Enabled(history, filename)
                             ELSE history
       IN Toggled(toggle_wordlib_file(Manager, filename))
    /\ UNCHANGED <<engineVars, otherVars>>

ReloadAll(listdir) ==
    /\ SetManager(reload_all_wordlibs(Manager, listdir))
    /\ mret' = [NoManagerCall EXCEPT !.op = "reload"]
    /\ UNCHANGED <<history, engineVars, otherVars>>

\* find_response is an alias of process_message
ManagerProcessMessage(message, context) ==
    /\ LET Processed(r) ==
               /\ SetManager(r.m)
               /\ mret' = [NoManagerCall EXCEPT !.op = "process", !.message = message,
                                                !.val = r.val, !.calls = r.calls]
       IN Processed(manager_process_message(Manager, message, context))
    /\ UNCHANGED <<history, engineVars, otherVars>>

ManagerNext ==
    \/ \E filename \in FileNames : LoadWordlibFile(filename)
    \/ \E filename \in FileNames : UnloadWordlibFile(filename)
    \/ \E filename \in FileNames : ToggleWordlibFile(filename)
    \/ \E listdir \in ListdirOrders : ReloadAll(listdir)
    \/ \E message \in ManagerMessages, context \in Contexts :
          ManagerProcessMessage(message, context)

-----------------------------------------------------------------------------
(* the functions read config and write config: the state they reach is the
   record [dirs, content]: the directories that exist, and for each path of a
   file that exists what it holds: a JSON object, JSON that is not an object,
   or text that is not JSON *)

JsonObject(obj) == [kind |-> "object", obj |-> obj]
JsonArray == [kind |-> "array", obj |-> EmptyDict]
NotJson == [kind |-> "text", obj |-> EmptyDict]

\* os.path.dirname(path): what is before the last '/', '' without one
RECURSIVE Dirname(_)
Dirname(path) ==
    IF path = <<>> THEN <<>>
    ELSE IF path[Len(path)] = "/" THEN SubSeq(path, 1, Len(path) - 1)
    ELSE Dirname(SubSeq(path, 1, Len(path) - 1))

\* os.makedirs(d, exist_ok=True); os.makedirs('') raises FileNotFoundError.
\* returns [ok, fs]
Makedirs(fs, d) ==
    IF d = <<>> THEN [ok |-> FALSE, fs |-> fs]
    ELSE [ok |-> TRUE, fs |-> [fs EXCEPT !.dirs = @ \cup {d}]]

\* returns [val, fs, raised]: every exception is caught and gives the default
_read_config_func(fs, path, key, default) ==
    LET Opened(fs1) ==
            IF path \notin DOMAIN fs1.content
            THEN [val |-> default, fs |-> fs1, raised |-> FALSE]
            ELSE IF fs1.content[path].kind = "object"
            THEN [val |-> DictGet(fs1.content[path].obj, key, default),
                  fs |-> fs1, raised |-> FALSE]
            ELSE [val |-> default, fs |-> fs1, raised |-> FALSE]
        Made(d) ==
            IF d.ok THEN Opened(d.fs)
            ELSE [val |-> default, fs |-> fs, raised |-> FALSE]
    IN Made(Makedirs(fs, Dirname(path)))

\* returns [val, fs, raised]: every exception is caught and gives ''; a file
\* that is not JSON counts as {}, and config[key] = value on JSON that is not
\* an object raises before the file is opened for writing
_write_config_func(fs, path, key, value) ==
    LET Dump(fs1, config) ==
            [val |-> <<>>,
             fs |-> [fs1 EXCEPT !.content =
                        [x \in (DOMAIN @) \cup {path} |->
                            IF x = path THEN JsonObject(DictSet(config, key, value))
                            ELSE @[x]]],
             raised |-> FALSE]
        Opened(fs1) ==
            IF path \notin DOMAIN fs1.content THEN Dump(fs1, EmptyDict)
            ELSE IF fs1.content[path].kind = "object"
            THEN Dump(fs1, fs1.content[path].obj)
            ELSE IF fs1.content[path].kind = "text" THEN Dump(fs1, EmptyDict)
            ELSE [val |-> <<>>, fs |-> fs1, raised |-> FALSE]
        Made(d) ==
            IF d.ok THEN Opened(d.fs)
            ELSE [val |-> <<>>, fs |-> fs, raised |-> FALSE]
    IN Made(Makedirs(fs, Dirname(path)))

\* the paths: f in the working directory, d/f in a directory that exists,
\* n/f in one that does not
P_BARE == <<"f">>
P_DIR == <<"d", "/", "f">>
P_NEW == <<"n", "/", "f">>
ConfigPaths == {P_BARE, P_DIR, P_NEW}
ConfigKeys == {<<"k">>, <<"j">>}
ConfigValues == {<<"v">>, <<"w">>}
ConfigDefaults == {<<"D">>, <<>>}

NoFiles == [dirs |-> {}, content |-> [x \in {} |-> NotJson]]
NoConfigCall ==
    [op |-> "init", path |-> <<>>, key |-> <<>>, value |-> <<>>, val |-> <<>>,
     raised |-> FALSE, pre |-> NoFiles]

ConfigIdle ==
    /\ json_files = NoFiles
    /\ cret = NoConfigCall

\* directory d exists; d/f is absent or holds any of the three kinds, and f
\* is absent or holds an object
ConfigInit ==
    /\ \E at_dir \in {NotJson, JsonArray, JsonObject(EmptyDict),
                       JsonObject(<<"j">> :> <<"w">>)},
          at_bare \in {JsonObject(<<"k">> :> <<"w">>)},
          present \in SUBSET {P_DIR, P_BARE} :
          json_files = [dirs |-> {<<"d">>},
                   content |-> [x \in present |-> IF x = P_DIR THEN at_dir ELSE at_bare]]
    /\ cret = NoConfigCall

WriteConfig(path, key, value) ==
    /\ LET Written(r) ==
               /\ json_files' = r.fs
               /\ cret' = [op |-> "write", path |-> path, key |-> key, value |-> value,
                           val |-> r.val, raised |-> r.raised, pre |-> json_files]
       IN Written(_write_config_func(json_files, path, key, value))
    /\ UNCHANGED <<engineVars, managerVars, threads, wiringVars>>

ReadConfig(path, key, default) ==
    /\ LET Read(r) ==
               /\ json_files' = r.fs
               /\ cret' = [op |-> "read", path |-> path, key |-> key, value |-> default,
                           val |-> r.val, raised |-> r.raised, pre |-> json_files]
       IN Read(_read_config_func(json_files, path, key, default))
    /\ UNCHANGED <<engineVars, managerVars, threads, wiringVars>>

ConfigNext ==
    \/ \E path \in ConfigPaths, key \in ConfigKeys, value \in ConfigValues :
          WriteConfig(path, key, value)
    \/ \E path \in ConfigPaths, key \in ConfigKeys, default \in ConfigDefaults :
          ReadConfig(path, key, default)

-----------------------------------------------------------------------------
(* reload_all on one thread, process_message on another, on one manager.
   threads.reload is the reload thread: idle, or loading the names of todo;
   threads.process is the message thread: its dict iterator (pos items
   consumed of a dict that had `used` items when the iterator was made), and
   once the call has ended what it returned or that it raised *)

NoReload == [pc |-> "idle", all |-> FALSE, todo |-> <<>>]
NoProcess ==
    [pc |-> "idle", pos |-> 0, used |-> 0, message |-> <<>>, context |-> EmptyDict,
     val |-> NoneV, raised |-> FALSE, during |-> FALSE]
NoThreads == [reload |-> NoReload, process |-> NoProcess]
ThreadsIdle == threads = NoThreads

\* self.engines.clear(), and the test and the choice of the loop of
\* _load_enabled_files
ReloadBegin(listdir) ==
    /\ threads.reload.pc = "idle"
    /\ engines' = <<>>
    /\ threads' = [threads EXCEPT
                      !.reload = [pc |-> "loading",
                                  all |-> enabled_files = <<>>,
                                  todo |-> IF enabled_files = <<>> THEN listdir
                                           ELSE enabled_files],
                      !.process.during = @ \/ threads.process.pc = "iterating"]
    /\ UNCHANGED <<enabled_files, config_json, mret, history,
                   engineVars, configVars, wiringVars>>

\* one pass of the loop of _load_enabled_files: the next name
ReloadStep ==
    /\ threads.reload.pc = "loading"
    /\ SetManager(IF threads.reload.all
                  THEN LoadAllTxt(Manager, <<Head(threads.reload.todo)>>)
                  ELSE LoadEnabled(Manager, <<Head(threads.reload.todo)>>))
    /\ threads' = [threads EXCEPT
                      !.reload = IF Len(threads.reload.todo) = 1 THEN NoReload
                                 ELSE [@ EXCEPT !.todo = Tail(@)]]
    /\ UNCHANGED <<mret, history, engineVars, configVars, wiringVars>>

\* for filename, engine in self.engines.items(): the iterator is made
ProcessBegin(message, context) ==
    /\ threads.process.pc /= "iterating"
    /\ threads' = [threads EXCEPT
                      !.process = [pc |-> "iterating", pos |-> 0, used |-> Len(engines),
                                   message |-> message, context |-> context,
                                   val |-> NoneV, raised |-> FALSE,
                                   during |-> threads.reload.pc = "loading"]]
    /\ UNCHANGED <<managerVars, engineVars, configVars, wiringVars>>

\* one pass of the loop of process_message: next() on the iterator raises
\* RuntimeError when the dict's size is not the size the iterator was made
\* with, ends the loop after the last item, and else gives the item at pos
ProcessStep ==
    /\ threads.process.pc = "iterating"
    /\ LET p == threads.process
           Ended(val, raised) ==
               [threads EXCEPT !.process.pc = "done", !.process.val = val,
                               !.process.raised = raised]
           Asked(r) ==
               /\ engines' = [engines EXCEPT ![p.pos + 1].engine = r.e]
               /\ threads' = IF Truthy(r.val) THEN Ended(r.val, FALSE)
                             ELSE [threads EXCEPT !.process.pos = @ + 1]
       IN IF Len(engines) /= p.used
          THEN engines' = engines /\ threads' = Ended(NoneV, TRUE)
          ELSE IF p.pos >= Len(engines)
          THEN engines' = engines /\ threads' = Ended(NoneV, FALSE)
          ELSE IF InSeq(engines[p.pos + 1].filename, enabled_files)
          THEN Asked(process_message(engines[p.pos + 1].engine, p.message, p.context))
          ELSE engines' = engines /\ threads' = [threads EXCEPT !.process.pos = @ + 1]
    /\ UNCHANGED <<enabled_files, config_json, mret, history,
                   engineVars, configVars, wiringVars>>

ThreadNext ==
    \/ \E listdir \in ListdirOrders : ReloadBegin(listdir)
    \/ ReloadStep
    \/ \E message \in ManagerMessages, context \in Contexts : ProcessBegin(message, context)
    \/ ProcessStep

-----------------------------------------------------------------------------
(* the application: main constructs the framework, whose constructor makes a
   manager for its MessageHandler, and then a manager that it hands to the
   window. The variables engines and enabled_files are the window's manager,
   `framework` holds the engines and enabled_files of the framework's, and
   config_json is the one config.json of the directory both were given *)

\* no framework constructed
NoFramework == [engines |-> <<>>, enabled_files |-> <<>>]
\* calls is that of ManagerProcessFrom; enabled and used are the enabled_files
\* of the window's manager and of the framework's when the message came
NoHandle ==
    [op |-> "init", message |-> <<>>, val |-> NoneV, calls |-> <<>>,
     enabled |-> <<>>, used |-> <<>>]
WiringIdle ==
    /\ framework = NoFramework
    /\ hret = NoHandle

FrameworkManager ==
    [engines |-> framework.engines, enabled_files |-> framework.enabled_files,
     config_json |-> config_json]

\* OneBotFramework(config), then LchliebedichWordLibManager(onebot_framework, config)
MainInit ==
    /\ \E config \in InitialConfigs, listdir1 \in ListdirOrders, listdir2 \in ListdirOrders :
          LET Window(f, m) ==
                  /\ framework = [engines |-> f.engines, enabled_files |-> f.enabled_files]
                  /\ engines = m.engines
                  /\ enabled_files = m.enabled_files
                  /\ config_json = m.config_json
              Framework(f) == Window(f, NewManager(f.config_json, listdir2))
          IN Framework(NewManager(config, listdir1))
    /\ mret = NoManagerCall
    /\ history = NoHistory
    /\ hret = NoHandle

\* MessageHandler.handle_message: find_response on the framework's manager;
\* no custom handler is registered, so a falsy response gives None
HandleMessage(message, context) ==
    /\ LET Handled(r) ==
               /\ framework' = [engines |-> r.m.engines, enabled_files |-> r.m.enabled_files]
               /\ hret' = [op |-> "handle", message |-> message,
                           val |-> IF Truthy(r.val) THEN r.val ELSE NoneV,
                           calls |-> r.calls,
                           enabled |-> enabled_files, used |-> framework.enabled_files]
       IN Handled(manager_process_message(FrameworkManager, message, context))
    /\ UNCHANGED <<managerVars, engineVars, configVars, threads>>

\* the window enables and disables files on its manager while messages come
MainNext ==
    \/ \E filename \in FileNames : ToggleWordlibFile(filename)
    \/ \E message \in ManagerMessages, context \in Contexts : HandleMessage(message, context)

-----------------------------------------------------------------------------
(* the specifications: Spec runs one engine, ManagerSpec runs the manager *)


\* a manager over an empty directory
ManagerIdle ==
    /\ engines = <<>>
    /\ enabled_files = <<>>
    /\ config_json = ConfigAbsent
    /\ mret = NoManagerCall
    /\ history = NoHistory

Init == EngineInit /\ ManagerIdle /\ ConfigIdle /\ ThreadsIdle /\ WiringIdle
Next == EngineNext
Spec == Init /\ [][Next]_vars

\* the stand-alone engine called with any context map
AnyNext ==
    \/ \E file_path \in EnginePaths : LoadLexiconFile(file_path)
    \/ \E message \in Messages, context \in AnyContexts : ProcessMessage(message, context)
AnySpec == Init /\ [][AnyNext]_vars

\* the engine loading any file of at most MaxLines lines
ParseNext ==
    /\ ret.op = "init"
    /\ \E lines \in Contents : LoadLexiconText(lines)
ParseSpec == Init /\ [][ParseNext]_vars

MInit == EngineInit /\ ManagerInit /\ ConfigIdle /\ ThreadsIdle /\ WiringIdle
MNext == ManagerNext
ManagerSpec == MInit /\ [][MNext]_vars

\* the two config functions over a small file system
CInit == EngineInit /\ ManagerIdle /\ ConfigInit /\ ThreadsIdle /\ WiringIdle
CNext == ConfigNext
ConfigSpec == CInit /\ [][CNext]_vars

\* one manager, a reload thread and a message thread
TInit == EngineInit /\ ManagerInit /\ ConfigIdle /\ ThreadsIdle /\ WiringIdle
TNext == ThreadNext
ThreadSpec == TInit /\ [][TNext]_vars

\* the application: the window's manager and the message path
WInit == EngineInit /\ MainInit /\ ConfigIdle /\ ThreadsIdle
WNext == MainNext
MainSpec == WInit /\ [][WNext]_vars

-----------------------------------------------------------------------------
(* the vocabulary of the properties *)

\* the least element of a non-empty set of integers
Least(S) == CHOOSE i \in S : \A j \in S : i <= j

\* the entries whose trigger matches the message of the last call
Matching ==
    {i \in DOMAIN entries : _match_trigger(NewEngine, entries[i].trigger, ret.message).matched}

\* the engine the last call ran on, and that engine once the trigger of the
\* entry that generated the response has matched
BeforeCall ==
    [entries |-> entries, global_variables |-> ret.pre, message_context |-> message_context]
AfterMatch == _match_trigger(BeforeCall, entries[ret.hit].trigger, ret.message).e

\* a conditions list that is one block: a guard line, the if-lines, and after
\* an else line the else-lines (the parser drops the closing line)
OneBlock(conditions) ==
    /\ conditions /= <<>>
    /\ \A i \in DOMAIN conditions :
          (StartsWith(Strip(conditions[i]), IF_ZH) \/ StartsWith(Strip(conditions[i]), IF_EN))
          <=> i = 1
ElseAt(conditions) ==
    Least({i \in 2..Len(conditions) : StartsWith(Strip(conditions[i]), ELSE_MARK)}
          \cup {Len(conditions) + 1})
IfLines(conditions) == SubSeq(conditions, 2, ElseAt(conditions) - 1)
ElseLines(conditions) == SubSeq(conditions, ElseAt(conditions) + 1, Len(conditions))
GuardOf(conditions) == Strip(Drop(Strip(conditions[1]), 3))
HasReturn(lines) == \E i \in DOMAIN lines : StartsWith(Strip(lines[i]), RETURN_MARK)

\* the branch the guard selects, on engine e
SelectedLines(e, conditions) ==
    IF _evaluate_condition(e, GuardOf(conditions)).val
    THEN IfLines(conditions) ELSE ElseLines(conditions)

-----------------------------------------------------------------------------
(* the properties, under Spec (one engine) *)

\* C1: process_message tries the entries in file order and answers from the
\* first entry whose trigger matches: that entry's index is the least matching
\* one, no later entry's trigger is matched, and the reply and the Variable
\* Store are exactly what matching and generating that one entry give (so no
\* later entry's function runs and no later entry's captures are written).
\* With first.txt, whose entries a and a(b) both match the message ab, the
\* reply is A, the function call of the second entry leaves no m in the
\* store and its group leaves no capture.
C1_FirstMatchWins ==
    ret.op = "process" =>
        /\ Matching /= {} =>
              /\ ret.hit = Least(Matching)
              /\ ret.tried = 1..ret.hit
              /\ ret.val = Some(_generate_response(AfterMatch, entries[ret.hit]).val)
              /\ global_variables
                    = _generate_response(AfterMatch, entries[ret.hit]).e.global_variables
        /\ (ret.file = "first.txt" /\ ret.message = <<"a", "b">>) =>
              /\ ret.val = Some(<<"A">>)
              /\ <<"m">> \notin DOMAIN global_variables
              /\ (KEY_BRACKET \o <<"1">>) \notin DOMAIN global_variables
              /\ global_variables[KEY_BRACKET_COUNT] = <<"0">>

\* C1: a message that two entries of the file match has been answered
C1_Witness ==
    /\ ret.op = "process"
    /\ ret.file = "first.txt"
    /\ ret.message = <<"a", "b">>
    /\ {1, 2} \subseteq Matching
    /\ ret.hit = 1
    /\ ret.val = Some(<<"A">>)

\* C3: when the branch that the guard of a matched entry selects holds a
\* return line, process_message returns the empty string, whatever else the
\* entry holds
C3_ReturnGivesEmpty ==
    (ret.op = "process" /\ ret.hit /= 0) =>
        ((/\ OneBlock(entries[ret.hit].conditions)
          /\ HasReturn(SelectedLines(AfterMatch, entries[ret.hit].conditions)))
         => ret.val = Some(<<>>))

\* the template of the entry that answered, when the entry has no conditions
Template == Join(entries[ret.hit].responses, <<NL>>)

\* where the first %name% token of the template starts and ends: the first
\* '%' that a character other than '%' follows and a later '%' closes
TokenStarts ==
    {i \in 1..(Len(Template) - 2) :
        /\ Template[i] = "%"
        /\ Template[i + 1] /= "%"
        /\ \E j \in (i + 2)..Len(Template) : Template[j] = "%"}
FirstStart == Least(TokenStarts)
FirstEnd == Least({j \in (FirstStart + 2)..Len(Template) : Template[j] = "%"})
FirstValue == _get_variable_value(AfterMatch, SubSeq(Template, FirstStart + 1, FirstEnd - 1))

\* C5: the value resolved for a %name% token is inserted as it is, also when
\* it holds the text %other%: for a template without function tokens, the
\* reply is the text before the first token, then the token's value verbatim,
\* then the substitution of the text after the token. With the nickname
\* %QQ% the template %nickname-token% gives the reply %QQ%, not the QQ number.
C5_NotRecursive ==
    (ret.op = "process" /\ ret.hit /= 0) =>
        /\ (/\ entries[ret.hit].conditions = <<>>
            /\ ~Contains(Template, <<"$">>)
            /\ TokenStarts /= {}
            /\ ~Contains(FirstValue, <<"$">>))
           => ret.val = Some(SubSeq(Template, 1, FirstStart - 1)
                             \o FirstValue
                             \o _process_variables_and_functions(
                                    AfterMatch, Drop(Template, FirstEnd)).text)
        /\ (ret.file = "subst.txt" /\ ret.message = <<"n">>
            /\ message_context = CTX_GROUP /\ <<"ni4", "cheng1">> \notin DOMAIN ret.pre)
           => ret.val = Some(<<"%", "Q", "Q", "%">>)

\* C5: a token whose value holds a token of a name that has a value has been
\* substituted
C5_Witness ==
    /\ ret.op = "process"
    /\ ret.file = "subst.txt"
    /\ ret.message = <<"n">>
    /\ FirstValue = <<"%", "Q", "Q", "%">>
    /\ _get_variable_value(AfterMatch, <<"Q", "Q">>) = <<"1", "2", "3", "4", "5", "6">>
    /\ ret.val = Some(<<"%", "Q", "Q", "%">>)

\* C6 as the specification words it: in the template $set k v$%k% the token
\* %k% resolves to v, the value the call to its left has just set
C6_Interleaved ==
    (ret.op = "process" /\ ret.file = "subst.txt" /\ ret.message = <<"k">>)
        => ret.val = Some(<<"v">>)

\* C6, amended: the pass resolves every %name% token first and runs the
\* function calls afterwards, so in the template $set k v$%k% the token %k%
\* resolves to the value k had before the pass (the empty string when k was
\* not set), and k holds v once the pass is over
C6_VariablesThenFunctions ==
    (ret.op = "process" /\ ret.file = "subst.txt" /\ ret.message = <<"k">>)
        => /\ ret.val = Some(DictGet(ret.pre, <<"k">>, <<>>))
           /\ global_variables[<<"k">>] = <<"v">>

\* C6: the template has been substituted on a store without k
C6_Witness ==
    /\ ret.op = "process"
    /\ ret.file = "subst.txt"
    /\ ret.message = <<"k">>
    /\ <<"k">> \notin DOMAIN ret.pre
    /\ ret.val = Some(<<>>)
    /\ global_variables[<<"k">>] = <<"v">>

\* the value the layers give a name: the Variable Store, else the message
\* context, else the built-in of that name, else the empty string
Layered(name) ==
    IF name \in DOMAIN global_variables THEN global_variables[name]
    ELSE IF name \in DOMAIN message_context THEN message_context[name]
    ELSE IF name \in DOMAIN builtin_vars(Engine) THEN builtin_vars(Engine)[name]
    ELSE <<>>

BranchReply(e, lines) ==
    IF HasReturn(lines) THEN <<>>
    ELSE _process_variables_and_functions(e, Join(lines, <<NL>>)).text

\* C8: for an entry whose body is one block with an else line, the reply is
\* the if-lines when the guard is true and the else-lines when it is false
C8_IfElse ==
    (ret.op = "process" /\ ret.hit /= 0) =>
        ((/\ OneBlock(entries[ret.hit].conditions)
          /\ entries[ret.hit].responses = <<>>
          /\ ElseAt(entries[ret.hit].conditions) <= Len(entries[ret.hit].conditions))
         => ret.val = Some(BranchReply(
                         _evaluate_condition(
                             AfterMatch, GuardOf(entries[ret.hit].conditions)).e,
                         SelectedLines(AfterMatch, entries[ret.hit].conditions))))

\* C9: process_message returns None exactly when no entry's trigger matches
\* the message, and a string (which may be empty) when one does
C9_NoneIffUnmatched ==
    ret.op = "process" =>
        /\ ret.val = NoneV <=> Matching = {}
        /\ ret.val.some <=> Matching /= {}
        /\ ret.hit = 0 <=> Matching = {}

\* C9: a matched entry has answered with the empty string
C9_Witness ==
    /\ ret.op = "process"
    /\ ret.file = "cond.txt"
    /\ ret.message = <<"s">>
    /\ Matching /= {}
    /\ ret.val = Some(<<>>)

-----------------------------------------------------------------------------
(* the properties, under ManagerSpec *)

\* C2: once an entry of an earlier enabled file matches the message, the
\* manager's process_message asks no later file, and returns what that entry
\* produced
C2_FirstMatchAcrossFiles ==
    mret.op = "process" =>
        \A j \in DOMAIN mret.calls :
            mret.calls[j].hit /= 0
            => (j = Len(mret.calls) /\ mret.val = mret.calls[j].val)

\* C4: no reply comes from an entry of a file whose most recent enable or
\* disable call (load, unload, toggle) disabled it
C4_DisabledFileSilent ==
    (mret.op = "process" /\ Truthy(mret.val))
        => mret.calls[Len(mret.calls)].filename \notin history.disabled

-----------------------------------------------------------------------------
(* C11: the public API of the engine and exceptions *)

\* C11: no call of load_lexicon_file or process_message raises an exception
\* to its caller, whatever the lexicon, the message and the context map
C11_NeverRaises == ret.op \in {"load", "process"} => ~ret.raised

-----------------------------------------------------------------------------
(* C12: a function call that fails *)

\* the template of the matched rule after the variable pass, and its first
\* $...$ token
Varied == replace_variable(AfterMatch, Template)
CallStarts == {i \in 1..Len(Varied) : Varied[i] = "$" /\ TokenEnd(Drop(Varied, i - 1), "$") > 0}
CallStart == Least(CallStarts)
CallEnd == CallStart + TokenEnd(Drop(Varied, CallStart - 1), "$") - 1
AfterCall == replace_function(AfterMatch, Drop(Varied, CallEnd))

\* C12: a $func args$ call that fails (the built-in raises, the number of
\* arguments is wrong, the name is unknown) is replaced by the empty string
\* and the rest of the template is still substituted: when the first call of
\* a template fails, the reply is the text before it followed by the
\* substitution of the text after it, and the store is what the later calls
\* make of it; in func.txt, f gives AB, the QQ number and 2, g gives the QQ
\* number and C with g set to v, and h gives ok and the nickname
C12_FailedCallIsEmpty ==
    (ret.op = "process" /\ ret.hit /= 0 /\ ~ret.raised
        /\ entries[ret.hit].conditions = <<>>) =>
        /\ (CallStarts /= {}
            /\ CallFails(AfterMatch, SubSeq(Varied, CallStart + 1, CallEnd - 1)))
           => /\ ret.val = Some(SubSeq(Varied, 1, CallStart - 1) \o AfterCall.text)
              /\ global_variables = AfterCall.e.global_variables
        /\ (ret.file = "func.txt" /\ ret.message = <<"f">>)
           => ret.val = Some(<<"A", "B">> \o Layered(<<"Q", "Q">>) \o <<"2">>)
        /\ (ret.file = "func.txt" /\ ret.message = <<"g">>)
           => /\ ret.val = Some(Layered(<<"Q", "Q">>) \o <<"C">>)
              /\ DictGet(global_variables, <<"g">>, <<>>) = <<"v">>
        /\ (ret.file = "func.txt" /\ ret.message = <<"h">> /\ message_context = CTX_BYTES)
           => ret.val = Some(<<"o", "k", "N">>)

\* C12: the first call of a template has failed and a token after it has
\* been substituted; a built-in has raised and the reply has been given
C12_Witness ==
    \/ /\ ret.op = "process" /\ ret.file = "func.txt" /\ ret.message = <<"f">>
       /\ CallStarts /= {}
       /\ CallFails(AfterMatch, SubSeq(Varied, CallStart + 1, CallEnd - 1))
       /\ ret.val = Some(<<"A", "B", "1", "2">>)
    \/ /\ ret.op = "process" /\ ret.file = "func.txt" /\ ret.message = <<"h">>
       /\ message_context = CTX_BYTES
       /\ ret.val = Some(<<"o", "k", "N">>)

-----------------------------------------------------------------------------
(* C13: the Variable Store between calls *)

\* the keys a match writes: the captures, the parameters and their counts
IsMatchKey(k) ==
    \/ StartsWith(k, KEY_BRACKET)
    \/ StartsWith(k, KEY_PARAM)

\* the text of the matched rule: its guards, branches and response lines
RuleText == Join(entries[ret.hit].conditions \o entries[ret.hit].responses, <<NL>>)

\* C13: nothing resets the Variable Store between process_message calls: a
\* call that matches no rule leaves it as it was; after a call whose rule
\* calls no function, every key of the store before the call that is not a
\* capture or parameter key still resolves to the value it had; and in
\* store.txt the rule with one group answers with capture 2, parameter 1 and
\* m as earlier calls left them
C13_StorePersists ==
    (ret.op = "process") =>
        /\ ret.hit = 0 => global_variables = ret.pre
        /\ (ret.hit /= 0 /\ ~Contains(RuleText, <<"$">>))
           => \A k \in DOMAIN ret.pre :
                  ~IsMatchKey(k) => _get_variable_value(Engine, k) = ret.pre[k]
        /\ (ret.file = "store.txt" /\ ret.message = <<"o", "z">>)
           => ret.val = Some(<<"z", "-">>
                             \o DictGet(ret.pre, KEY_BRACKET \o <<"2">>, <<>>) \o <<"-">>
                             \o DictGet(ret.pre, KEY_PARAM \o <<"1">>, <<>>) \o <<"-">>
                             \o DictGet(ret.pre, <<"m">>, <<>>))

\* C13: the rule with one group has answered with the second capture of an
\* earlier match, the parameter of another and the m a third call set
C13_Witness ==
    /\ ret.op = "process"
    /\ ret.file = "store.txt"
    /\ ret.message = <<"o", "z">>
    /\ DictGet(ret.pre, KEY_BRACKET_COUNT, <<>>) /= <<"2">>
    /\ ret.val = Some(<<"z", "-", "y", "-", "7", "-", "B">>)

-----------------------------------------------------------------------------
(* C14: the captures of a match *)

\* the groups of the match of the rule's trigger against the message
Groups == Search(entries[ret.hit].trigger, ret.message).caps

\* C14, as stated: for the trigger ce4shi4(.*) (.*) and the message
\* "ce4shi4 foo bar" the template %capture 1%-%capture 2% gives foo-bar
C14_FooBar ==
    (ret.op = "process" /\ ret.file = "caps.txt" /\ ret.message = MSG_FOO_BAR)
        => ret.val = Some(<<"f", "o", "o", "-", "b", "a", "r">>)

\* C14, amended: after a regex match the store holds capture i = the text of
\* group i for every i in 1..N and the capture count N, each capture being
\* a piece of the message; the first group of ce4shi4(.*) (.*) is greedy and
\* takes the space after the trigger word with it, so "ce4shi4 foo bar"
\* gives " foo-bar"
C14_CapturesStored ==
    (ret.op = "process" /\ ret.hit /= 0) =>
        /\ (~ReError(entries[ret.hit].trigger) /\ ~Contains(RuleText, <<"$">>))
           => /\ DictGet(global_variables, KEY_BRACKET_COUNT, <<>>)
                    = IntToStr(NGroups(entries[ret.hit].trigger))
              /\ Len(Groups) = NGroups(entries[ret.hit].trigger)
              /\ \A i \in 1..Len(Groups) :
                    /\ DictGet(global_variables, KEY_BRACKET \o IntToStr(i), <<"?">>) = Groups[i]
                    /\ Contains(ret.message, Groups[i]) \/ Groups[i] = <<>>
        /\ (ret.file = "caps.txt" /\ ret.message = MSG_FOO_BAR)
           => /\ global_variables[KEY_BRACKET \o <<"1">>] = <<" ", "f", "o", "o">>
              /\ global_variables[KEY_BRACKET \o <<"2">>] = <<"b", "a", "r">>
              /\ ret.val = Some(<<" ", "f", "o", "o", "-", "b", "a", "r">>)
        /\ (ret.file = "caps.txt" /\ ret.message = <<"w", "x", "y">>)
           => ret.val = Some(<<"[", "x", "y", "|", "x", "]">>)

\* C14: the two-group trigger has matched "ce4shi4 foo bar" and the reply
\* has been built from the two captures
C14_Witness ==
    /\ ret.op = "process"
    /\ ret.file = "caps.txt"
    /\ ret.message = MSG_FOO_BAR
    /\ ret.hit = 1
    /\ global_variables[KEY_BRACKET_COUNT] = <<"2">>
    /\ ret.val = Some(<<" ", "f", "o", "o", "-", "b", "a", "r">>)

-----------------------------------------------------------------------------
(* C15: a rule with a conditions block and plain response lines *)

\* C15: the reply of a matched rule that has a conditions block is computed
\* from the branch the guard selects and from nothing else, so the rule's
\* plain response lines are no part of it (stated here for the rules whose
\* block holds no return line: with a false guard and no else line the
\* selected branch is empty, and so is the reply)
C15_BranchOnly ==
    (ret.op = "process" /\ ret.hit /= 0) =>
        ((/\ OneBlock(entries[ret.hit].conditions)
          /\ ~HasReturn(entries[ret.hit].conditions))
         => ret.val = Some(BranchReply(
                         _evaluate_condition(
                             AfterMatch, GuardOf(entries[ret.hit].conditions)).e,
                         SelectedLines(AfterMatch, entries[ret.hit].conditions))))

-----------------------------------------------------------------------------
(* C16: loading the enabled files, under ManagerSpec *)

\* the file exists and open(path).read() gives its text
Readable(filename) == filename \in DOMAIN ManagerDisk /\ ManagerDisk[filename].readable

EngineOf(filename) ==
    engines[CHOOSE i \in DOMAIN engines : engines[i].filename = filename].engine

\* C16: once the manager has loaded its enabled files (at start-up and in
\* reload_all), every enabled file that exists and can be read has an engine
\* that holds the rules of that file, and no file that is missing or cannot
\* be read has one: a failing file is skipped and the load goes on
C16_FailingFileSkipped ==
    (mret.op \in {"init", "reload"}) =>
        \A filename \in FileNames :
            /\ (InSeq(filename, enabled_files) /\ Readable(filename))
               => /\ HasEngine(Manager, filename)
                  /\ EngineOf(filename).entries
                        = _parse_lexicon_content(ManagerDisk[filename].content)
            /\ ~Readable(filename) => ~HasEngine(Manager, filename)

\* C16: a reload has gone over a list whose first file fails and has given
\* an engine to a file after it
C16_Witness ==
    /\ mret.op = "reload"
    /\ Len(enabled_files) = 2
    /\ ~Readable(enabled_files[1])
    /\ Readable(enabled_files[2])
    /\ Len(engines) = 1
    /\ engines[1].filename = enabled_files[2]

-----------------------------------------------------------------------------
(* the parser's properties, under ParseSpec *)

Lines == ret.content
IsContentLine(i) == Strip(Lines[i]) /= <<>> /\ ~_is_comment_line(Strip(Lines[i]))

\* the lines before line i that are no comments
NonCommentBefore(i) == {j \in 1..(i - 1) : ~_is_comment_line(Strip(Lines[j]))}
Greatest(S) == CHOOSE i \in S : \A j \in S : j <= i

\* line i may start a rule: a content line that no non-comment line
\* precedes, or whose nearest preceding non-comment line is blank
MayStart(i) ==
    /\ IsContentLine(i)
    /\ \/ NonCommentBefore(i) = {}
       \/ Strip(Lines[Greatest(NonCommentBefore(i))]) = <<>>

\* the triggers, in order, are texts of lines from i on that may start a rule
RECURSIVE StartsEmbed(_, _)
StartsEmbed(triggers, i) ==
    IF triggers = <<>> THEN TRUE
    ELSE IF i > Len(Lines) THEN FALSE
    ELSE IF MayStart(i) /\ Strip(Lines[i]) = Head(triggers)
    THEN StartsEmbed(Tail(triggers), i + 1)
    ELSE StartsEmbed(triggers, i + 1)

Triggers == [k \in DOMAIN entries |-> entries[k].trigger]

\* the text of line i is part of the body of a parsed rule
InBody(i) ==
    \E k \in DOMAIN entries :
        \/ InSeq(Strip(Lines[i]), entries[k].responses)
        \/ InSeq(Strip(Lines[i]), entries[k].conditions)
        \/ \E name \in DOMAIN entries[k].variables :
               \/ Contains(entries[k].variables[name], Lines[i])
               \/ StartsWith(Strip(Lines[i]), name \o <<":">>)
               \/ Strip(Lines[i]) = VAR_BLOCK \o name

\* line i is content of the variable block that line j heads
InBlockOf(i, j) ==
    /\ j < i
    /\ StartsWith(Strip(Lines[j]), VAR_BLOCK)
    /\ \A k \in (j + 1)..i : IsContentLine(k) /\ ~StartsWith(Strip(Lines[k]), VAR_BLOCK)

\* line i is content of a variable block whose name a later block takes
Overwritten(i) ==
    \E j \in DOMAIN Lines, j2 \in DOMAIN Lines :
        InBlockOf(i, j) /\ j2 > i /\ Strip(Lines[j2]) = Strip(Lines[j])

\* C17: a rule starts only at a content line that is the first of the file
\* or follows a blank line (comments aside), so the triggers of the parsed
\* rules are, in file order, texts of such lines; every other content line
\* is body content of a rule (the line that closes a block is dropped, and
\* so is the content of a variable block that a later block overwrites)
C17_RuleStarts ==
    (ret.op = "parse") =>
        /\ ret.ok
        /\ StartsEmbed(Triggers, 1)
        /\ \A i \in DOMAIN Lines :
              (IsContentLine(i) /\ ~MayStart(i) /\ ~StartsWith(Strip(Lines[i]), ENDIF_MARK))
              => InBody(i) \/ Overwritten(i)

\* C17: a file has been parsed into two rules, the second one starting
\* after a blank line and holding a plain line as its body
C17_Witness ==
    /\ ret.op = "parse"
    /\ Len(entries) = 2
    /\ \E i \in DOMAIN Lines :
          /\ i > 2 /\ MayStart(i) /\ Strip(Lines[i - 1]) = <<>>
          /\ entries[2].trigger = Strip(Lines[i])
          /\ i < Len(Lines) /\ ~MayStart(i + 1)
          /\ entries[2].responses = <<Strip(Lines[i + 1])>>

-----------------------------------------------------------------------------
(* C18: the lines of a conditional block *)

IsGuardLine(line) == StartsWith(line, IF_ZH) \/ StartsWith(line, IF_EN)

\* C18: a body line that starts with the if marker opens a conditional
\* block, so no parsed rule holds such a line among its plain response lines
\* and none holds a local variable that such a line defined (a variable
\* whose name is the marker's word)
C18_GuardOpensBlock ==
    (ret.op = "parse") =>
        \A k \in DOMAIN entries :
            /\ \A i \in DOMAIN entries[k].responses : ~IsGuardLine(entries[k].responses[i])
            /\ <<"ru2", "guo3">> \notin DOMAIN entries[k].variables
            /\ <<"i", "f">> \notin DOMAIN entries[k].variables

-----------------------------------------------------------------------------
(* C19: the parser ends and classifies every line *)

\* the file has a line that opens a variable block or a conditional block
HasBlock ==
    \E i \in DOMAIN Lines :
        \/ StartsWith(Strip(Lines[i]), VAR_BLOCK)
        \/ IsGuardLine(Strip(Lines[i])) /\ ~_is_variable_definition(Strip(Lines[i]))

\* the line fits none of the classes of a body line
FitsNoClass(line) ==
    /\ ~_is_variable_definition(line)
    /\ ~StartsWith(line, VAR_BLOCK)
    /\ ~IsGuardLine(line)

\* C19: the load of any text ends and returns True (the parser raises
\* nothing); from every line, _parse_entry, _parse_line_variable and
\* _parse_condition_block hand back an index beyond the line they started at
\* and at most one beyond the end of the block's closing line; and in a file
\* without blocks, a body line that fits no class is one of the response
\* lines of a rule
C19_ParserAdvances ==
    (ret.op = "parse") =>
        /\ ret.ok
        /\ \A i \in DOMAIN Lines :
              /\ _parse_entry(Lines, i).next_i \in (i + 1)..(Len(Lines) + 2)
              /\ _parse_line_variable(Lines, i)[2] \in (i + 1)..(Len(Lines) + 1)
              /\ _parse_condition_block(Lines, i)[2] \in (i + 1)..(Len(Lines) + 2)
        /\ ~HasBlock =>
              \A i \in DOMAIN Lines :
                  (IsContentLine(i) /\ ~MayStart(i) /\ FitsNoClass(Strip(Lines[i])))
                  => \E k \in DOMAIN entries : InSeq(Strip(Lines[i]), entries[k].responses)

\* C19: a file of MaxLines lines has been parsed whose rule holds an else
\* line and a block-end line outside any block, as response lines
C19_Witness ==
    /\ ret.op = "parse"
    /\ ret.ok
    /\ Len(Lines) = MaxLines
    /\ ~HasBlock
    /\ Len(entries) = 1
    /\ InSeq(ELSE_MARK, entries[1].responses)
    /\ InSeq(ENDIF_MARK, entries[1].responses)

-----------------------------------------------------------------------------
(* C20: config.json and the list in memory, under ManagerSpec *)

-----------------------------------------------------------------------------
(* C30: a return line in the branch the guard does not select *)

GuardResult == _evaluate_condition(AfterMatch, GuardOf(entries[ret.hit].conditions))

\* C30: a return line acts only in the branch the guard selects: for a rule
\* that is one block with an else line, a false guard gives the else lines
\* even when the if branch holds a return line, and a true guard gives the
\* if lines even when the else branch holds one
C30_ReturnOnlyInSelectedBranch ==
    (ret.op = "process" /\ ret.hit /= 0) =>
        ((/\ OneBlock(entries[ret.hit].conditions)
          /\ entries[ret.hit].responses = <<>>
          /\ ElseAt(entries[ret.hit].conditions) <= Len(entries[ret.hit].conditions))
         => /\ (/\ ~GuardResult.val
                /\ HasReturn(IfLines(entries[ret.hit].conditions))
                /\ ~HasReturn(ElseLines(entries[ret.hit].conditions)))
               => ret.val = Some(_process_variables_and_functions(
                                     GuardResult.e,
                                     Join(ElseLines(entries[ret.hit].conditions), <<NL>>)).text)
            /\ (/\ GuardResult.val
                /\ HasReturn(ElseLines(entries[ret.hit].conditions))
                /\ ~HasReturn(IfLines(entries[ret.hit].conditions)))
               => ret.val = Some(_process_variables_and_functions(
                                     GuardResult.e,
                                     Join(IfLines(entries[ret.hit].conditions), <<NL>>)).text))

-----------------------------------------------------------------------------
(* C28: the local variables of a rule *)

FirstName == SubSeq(Template, FirstStart + 1, FirstEnd - 1)

\* C28: a K:V line of a rule body defines a local variable that the rule's
\* template reads: when the first token of the template names a local
\* variable of the matched rule that the store does not hold, the reply
\* starts with the text before the token and the variable's value; in
\* local.txt, rule v (A:H, B:W, template %A% %B%!) replies "H W!"
C28_LocalVariableVisible ==
    (ret.op = "process" /\ ret.hit /= 0 /\ entries[ret.hit].conditions = <<>>) =>
        /\ (/\ TokenStarts /= {}
            /\ FirstName \in DOMAIN entries[ret.hit].variables
            /\ FirstName \notin DOMAIN AfterMatch.global_variables)
           => /\ ret.val.some
              /\ StartsWith(ret.val.val,
                            SubSeq(Template, 1, FirstStart - 1)
                            \o entries[ret.hit].variables[FirstName])
        /\ (ret.file = "local.txt" /\ ret.message = <<"v">>)
           => ret.val = Some(<<"H", " ", "W", "!">>)

-----------------------------------------------------------------------------
(* C22: guards with & and | *)

\* the guard of the matched rule once its tokens are substituted
GuardText ==
    _process_variables_and_functions(AfterMatch, GuardOf(entries[ret.hit].conditions)).text

\* a sub-clause, evaluated on its own
ClauseTrue(clause) == _evaluate_condition(GuardResult.e, Strip(clause)).val

\* C22: a guard with & is true exactly when every sub-clause between the &
\* is true, and a guard with | exactly when one sub-clause between the | is,
\* comparisons among the sub-clauses included; in and.txt, the guard
\* %QQ%==1&1==1 of rule m selects the if branch for the sender whose QQ is 1
C22_AndOrOfSubClauses ==
    (ret.op = "process" /\ ret.hit /= 0 /\ OneBlock(entries[ret.hit].conditions)) =>
        /\ (Contains(GuardText, <<"&">>) /\ ~Contains(GuardText, <<"|">>))
           => (GuardResult.val
               <=> \A i \in DOMAIN SplitAll(GuardText, <<"&">>) :
                       ClauseTrue(SplitAll(GuardText, <<"&">>)[i]))
        /\ (Contains(GuardText, <<"|">>) /\ ~Contains(GuardText, <<"&">>))
           => (GuardResult.val
               <=> \E i \in DOMAIN SplitAll(GuardText, <<"|">>) :
                       ClauseTrue(SplitAll(GuardText, <<"|">>)[i]))
        /\ (ret.file = "and.txt" /\ ret.message = <<"m">> /\ message_context = CTX_QQ)
           => ret.val = Some(<<"y", "e", "s">>)

-----------------------------------------------------------------------------
(* C23: function calls in the text a variable inserts *)

\* C23: what a %name% token inserts is never run as a function call: when
\* the matched rule's text holds no '$' at all, the call executes no
\* function, so the Variable Store after the call is the store the match
\* left, and the reply of a rule without conditions is its template with
\* the values inserted as they are
C23_NoCallFromInsertedText ==
    (ret.op = "process" /\ ret.hit /= 0 /\ ~Contains(RuleText, <<"$">>)) =>
        /\ global_variables = AfterMatch.global_variables
        /\ entries[ret.hit].conditions = <<>>
              => ret.val = Some(replace_variable(AfterMatch, Template))

-----------------------------------------------------------------------------
(* C24: two if-blocks in one rule body *)

\* the index of the second guard line of a condition list, and the first
\* block: the lines before it
SecondGuard(conditions) ==
    Least({i \in 2..Len(conditions) : IsGuardLine(Strip(conditions[i]))})
FirstBlock(conditions) == SubSeq(conditions, 1, SecondGuard(conditions) - 1)

\* C24: two if-blocks one after the other are independent: when the first
\* block's guard is true and its if-branch holds no return line, the reply is
\* the substituted if-branch of the first block, the lines between the first
\* guard and the first block's own else or end, and holds neither the second
\* block's guard line nor its branch lines. With rule 2 of blocks.txt and
\* QQ = 1 the reply is A
C24_BlocksIndependent ==
    (/\ ret.op = "process"
     /\ ret.hit /= 0
     /\ entries[ret.hit].conditions /= <<>>
     /\ IsGuardLine(Strip(entries[ret.hit].conditions[1]))
     /\ \E i \in 2..Len(entries[ret.hit].conditions) :
            IsGuardLine(Strip(entries[ret.hit].conditions[i]))
     /\ GuardResult.val
     /\ ~HasReturn(IfLines(FirstBlock(entries[ret.hit].conditions)))
     /\ IfLines(FirstBlock(entries[ret.hit].conditions)) /= <<>>) =>
        ret.val = Some(_process_variables_and_functions(GuardResult.e,
                          Join(IfLines(FirstBlock(entries[ret.hit].conditions)), <<NL>>)).text)

-----------------------------------------------------------------------------
(* C25: what condition evaluation substitutes *)

\* the text of the branch the guard of the matched one-block rule selects
SelectedText == Join(SelectedLines(AfterMatch, entries[ret.hit].conditions), <<NL>>)

-----------------------------------------------------------------------------
(* C29: engines and the enabled list *)

\* C29: in every state of a manager, every filename with a loaded engine is
\* in enabled_files, no filename is in enabled_files twice, and so there are
\* at most as many engines as enabled files
C29_EnginesWithinEnabled ==
    /\ \A i \in DOMAIN engines : InSeq(engines[i].filename, enabled_files)
    /\ \A i, j \in DOMAIN enabled_files : enabled_files[i] = enabled_files[j] => i = j
    /\ \A i, j \in DOMAIN engines : engines[i].filename = engines[j].filename => i = j
    /\ Len(engines) <= Len(enabled_files)

\* C29: after an unload or a toggle that disabled a file that had an engine,
\* some engine is still loaded and an enabled file has none
C29_Witness ==
    /\ mret.op \in {"unload", "toggle"}
    /\ mret.filename \in history.disabled
    /\ engines /= <<>>
    /\ Len(engines) < Len(enabled_files)

-----------------------------------------------------------------------------
(* C21: write config then read config *)

\* the object a file held before the last call, {} when it held none
ObjectBefore ==
    IF cret.path \in DOMAIN cret.pre.content /\ cret.pre.content[cret.path].kind = "object"
    THEN cret.pre.content[cret.path].obj
    ELSE EmptyDict

\* C21: neither function raises; after write path key value the parent
\* directory and the file exist, read path key default gives value for every
\* default, and every other key the file's object held still has its value;
\* a read of a file that is missing, is not JSON or lacks the key gives the
\* default
C21_WriteThenRead ==
    /\ ~cret.raised
    /\ cret.op = "write" =>
          /\ \A default \in ConfigDefaults :
                _read_config_func(json_files, cret.path, cret.key, default).val = cret.value
          /\ cret.path \in DOMAIN json_files.content
          /\ Dirname(cret.path) /= <<>> => Dirname(cret.path) \in json_files.dirs
          /\ \A k \in DOMAIN ObjectBefore :
                k /= cret.key =>
                    \A default \in ConfigDefaults :
                        _read_config_func(json_files, cret.path, k, default).val = ObjectBefore[k]
    /\ (/\ cret.op = "read"
        /\ \/ cret.path \notin DOMAIN cret.pre.content
           \/ cret.pre.content[cret.path].kind = "text"
           \/ cret.key \notin DOMAIN ObjectBefore) => cret.val = cret.value

-----------------------------------------------------------------------------
(* C26: reload_all while process_message runs, under ThreadSpec *)

\* the manager with the complete set of engines: every enabled file loaded
CompleteManager == LoadEnabled([Manager EXCEPT !.engines = <<>>], enabled_files)

\* C26: a process_message call that ran while a reload was in progress did
\* not raise, and returned what the complete set of engines returns for the
\* message: the engines it iterated were all those of the enabled files (the
\* set of enabled files and the files are the same before and after the
\* reload), so it missed no rule
C26_ReloadIsAtomic ==
    (threads.process.pc = "done" /\ threads.process.during) =>
        /\ ~threads.process.raised
        /\ threads.process.val
              = manager_process_message(CompleteManager, threads.process.message,
                                        threads.process.context).val

-----------------------------------------------------------------------------
(* C27: the enabled set of the message path, under MainSpec *)

\* C27: the message path uses the enabled set of the manager the window was
\* given: when handle_message answers, the enabled files its find_response
\* goes by are those of the window's manager, and every engine it asks, so
\* also the one that replies, is of a file enabled there
C27_OneEnabledSet ==
    hret.op = "handle" =>
        /\ {hret.used[i] : i \in DOMAIN hret.used}
              = {hret.enabled[i] : i \in DOMAIN hret.enabled}
        /\ \A i \in DOMAIN hret.calls : InSeq(hret.calls[i].filename, hret.enabled)

====
